---- MODULE Spec2Model ----
(***************************************************************************)
(* A model of nbedos/citop's package cache: the build cache (Save,         *)
(* SaveJob, Builds, WriteLog), the multi-provider refresh                  *)
(* UpdateFromProviders with its goroutines and channels, and the tree      *)
(* projection RepositoryBuilds (FetchRows, SetTraversable).                *)
(*                                                                         *)
(* Go maps and the structs reached through pointers are objects of one     *)
(* heap, named by their position in it; reference 0 is nil.  A Build held  *)
(* by value (Build struct, cache.go) is a record whose Stages and Jobs     *)
(* fields are references, so that two copies of a Build share their maps   *)
(* exactly as the Go values do.                                            *)
(***************************************************************************)
EXTENDS Integers, Sequences, FiniteSets, TLC

(***************************************************************************)
(* Bounds of the model.                                                    *)
(***************************************************************************)
\* calls of the cache's methods in one behaviour of Spec
MaxOps == 3
\* builds the providers stream in one UpdateFromProviders call
MaxStream == 2

(***************************************************************************)
(* Values.                                                                 *)
(***************************************************************************)
Accounts == {"a1", "a2"}
\* build.Repository == nil
NoRepo == "nil"
BuildIDs == {"b1"}
\* stage and job identifiers; 0 is the code's "no stage" / "no job"
StageIDs == {1}
JobIDs == {1}

Unknown == ""
Pending == "pending"
Running == "running"
Passed == "passed"
Failed == "failed"
Canceled == "canceled"
Manual == "manual"
Skipped == "skipped"

\* State.IsActive
IsActive(s) == s = Pending \/ s = Running

\* a log is a sequence of characters
LogA == <<"x">>
LogB == <<"x", "\n">>
\* utils.NullString{} : the job has no log
NoLog == [Valid |-> FALSE, String |-> <<>>]
NullString(s) == [Valid |-> TRUE, String |-> s]

\* Job struct, the fields the cache reads or writes
Job(id, state, log) == [ID |-> id, State |-> state, Log |-> log]

\* errors
NoErr == "nil"
ErrRepositoryNotFound == "repository not found"
ErrNilRepository == "build.Repository must not be nil"
ErrNoBuild == "no matching build"
ErrNoStage == "build has no stage"
ErrNoJob == "no matching job"
ErrNoProvider == "no matching provider"
ErrProviderLog == "provider.Log failed"
ErrWriter == "writer.Write failed"

\* buildKey struct
buildKey(accountID, buildID) == [AccountID |-> accountID, BuildID |-> buildID]

(***************************************************************************)
(* A map seen by value: nil, or its content.  A Build, Stage or job map    *)
(* "seen by value" is what a reader who follows every pointer finds.       *)
(***************************************************************************)
NilMap == [nil |-> TRUE, m |-> <<>>]
MapOf(f) == [nil |-> FALSE, m |-> f]

VARIABLES
    \* Cache.builds: buildKey -> Build (the Build the stored pointer names)
    builds,
    \* the Go heap: job maps, stage maps and Stage structs
    heap,
    \* Cache.providers, by the account identifiers that key it
    providers,
    \* the slice the last Builds() call returned, and whether one was made
    snap,
    snapTaken,
    \* what a reader of that slice saw when Builds() returned
    snapAt,
    \* the last call of a cache method: its name, the error it returned,
    \* whether it called provider.Log, and what it gave to writer.Write
    last,
    \* number of calls made
    nops,
    \* UpdateFromProviders, per provider p: where its consumer goroutine
    \* (go func(p Provider), line 257) and its producer goroutine (line 262) are
    consPC,
    prodPC,
    \* the build the consumer received from buildc and has not saved yet
    hand,
    \* what p.Builds returned, and the error the consumer's Save returned
    perr,
    cerr,
    \* the builds p.Builds has still to stream
    left,
    \* close(buildc) was executed
    buildcClosed,
    \* wg's counter, close(errc) was executed, subCtx is cancelled, the
    \* caller's ctx is cancelled
    wg,
    errcClosed,
    ctxDone,
    callerCancelled,
    \* the calling goroutine: where it is, its variables err and notFound
    mainPC,
    err,
    notFound,
    \* notifying goroutines (line 273) still in their select
    pending,
    \* history: the builds each provider sent, the first error other than nil
    \* and ErrRepositoryNotFound received from errc, and the cache as it was
    \* when UpdateFromProviders was called
    streamed,
    firstOther,
    cachedBefore,
    \* history: the builds each provider's goroutine passed to Save, by value
    saved,
    \* RepositoryBuilds: rows is the forest s.rows; treeIndex maps a key to
    \* a pointer to a node, which is the node's path in rows (the index of
    \* its tree, then the index of each child); dfsUpToDate; dfsTraversal is
    \* the flattened view, a sequence of pointers, and dfsIndex maps a key to
    \* its position in it, counted from 0
    rows,
    treeIndex,
    dfsUpToDate,
    dfsTraversal,
    dfsIndex,
    \* the array the pointers of dfsTraversal point into: s.rows itself
    \* (shared), or the array that a later FetchRows replaced
    dfsRows,
    \* goroutines calling the cache: mutex is the goroutine that holds
    \* c.mutex, 0 when it is unlocked; gor gives each goroutine the method
    \* it was started with, the function it executes and its position in it;
    \* prod is the state of the goroutine that calls p.Builds for a goroutine
    \* running UpdateFromProviders
    mutex,
    gor,
    prod,
    \* a goroutine in WriteLog, one statement at a time: where it is, its
    \* arguments, its variable job, whether it has called provider.Log and the
    \* value of complete
    frame

cacheVars == <<builds, heap, providers>>
apiVars == <<snap, snapTaken, snapAt, last, nops>>
ufpVars == <<consPC, prodPC, hand, perr, cerr, left, buildcClosed, wg, errcClosed,
             ctxDone, callerCancelled, mainPC, err, notFound, pending,
             streamed, firstOther, cachedBefore, saved>>
rowVars == <<rows, treeIndex, dfsUpToDate, dfsTraversal, dfsIndex, dfsRows>>
lockVars == <<mutex, gor, prod>>

\* goroutines that call the cache at the same time
MaxGoroutines == 3
Goroutines == 1..MaxGoroutines

\* where a goroutine is: in function fn at position pos, with left builds
\* still to receive from its provider
At(op, fn, pos, n) == [op |-> op, fn |-> fn, pos |-> pos, left |-> n]
Idle == At("", "", "idle", 0)

\* no call of WriteLog is in progress
NoFrame ==
    [pc |-> "idle", accountID |-> "", buildID |-> "", stageID |-> 0, jobID |-> 0,
     job |-> Job(0, Unknown, NoLog), called |-> FALSE, complete |-> FALSE]

\* no goroutine has called the cache
NoGoroutine ==
    /\ frame = NoFrame
    /\ mutex = 0
    /\ gor = [g \in Goroutines |-> Idle]
    /\ prod = [g \in Goroutines |-> "none"]

(***************************************************************************)
(* Heap objects.                                                           *)
(***************************************************************************)
JobsObj(m) == [kind |-> "jobs", m |-> m]
StagesObj(m) == [kind |-> "stages", m |-> m]
StageObj(id, jobs) == [kind |-> "stage", ID |-> id, Jobs |-> jobs]

\* make(map[int]*Job)
EmptyJobs == JobsObj(<<>>)
\* make(map[int]*Stage)
EmptyStages == StagesObj(<<>>)

(***************************************************************************)
(* A caller building a Build value: the maps and stages of the value t are *)
(* allocated in the heap h.                                                *)
(***************************************************************************)
AllocJobs(h, jm) ==
    IF jm.nil THEN [h |-> h, r |-> 0]
    ELSE [h |-> Append(h, JobsObj(jm.m)), r |-> Len(h) + 1]

AllocStage(h, st) ==
    LET a == AllocJobs(h, st.Jobs)
    IN  [h |-> Append(a.h, StageObj(st.ID, a.r)), r |-> Len(a.h) + 1]

RECURSIVE AllocStageSet(_, _, _)
AllocStageSet(h, ids, sm) ==
    IF ids = {} THEN [h |-> h, m |-> <<>>]
    ELSE LET s == CHOOSE x \in ids : \A y \in ids : x <= y
             a == AllocStage(h, sm[s])
             rest == AllocStageSet(a.h, ids \ {s}, sm)
         IN  [h |-> rest.h, m |-> (s :> a.r) @@ rest.m]

AllocStages(h, sm) ==
    IF sm.nil THEN [h |-> h, r |-> 0]
    ELSE LET a == AllocStageSet(h, DOMAIN sm.m, sm.m)
         IN  [h |-> Append(a.h, StagesObj(a.m)), r |-> Len(a.h) + 1]

AllocBuild(h, t) ==
    LET j == AllocJobs(h, t.Jobs)
        s == AllocStages(j.h, t.Stages)
    IN  [h |-> s.h,
         b |-> [Repository |-> t.Repository, ID |-> t.ID, State |-> t.State,
                UpdatedAt |-> t.UpdatedAt, Stages |-> s.r, Jobs |-> j.r]]

(***************************************************************************)
(* What a reader who follows the pointers sees.                            *)
(***************************************************************************)
DeepJobs(h, r) == IF r = 0 THEN NilMap ELSE MapOf(h[r].m)

DeepStage(h, r) == [ID |-> h[r].ID, Jobs |-> DeepJobs(h, h[r].Jobs)]

DeepStages(h, r) ==
    IF r = 0 THEN NilMap
    ELSE MapOf([s \in DOMAIN h[r].m |-> DeepStage(h, h[r].m[s])])

DeepBuild(h, b) ==
    [Repository |-> b.Repository, ID |-> b.ID, State |-> b.State,
     UpdatedAt |-> b.UpdatedAt,
     Stages |-> DeepStages(h, b.Stages), Jobs |-> DeepJobs(h, b.Jobs)]

DeepCache(bs, h) == [k \in DOMAIN bs |-> DeepBuild(h, bs[k])]

(***************************************************************************)
(* Cache.Save                                                              *)
(***************************************************************************)
\* for _, stage := range build.Stages { if stage.Jobs == nil { stage.Jobs = make(...) } }
\* (the maps are allocated in ascending order of the stages' references; the
\* order of a Go map's iteration changes only the names of the new maps)
RECURSIVE SaveStageJobs(_, _)
SaveStageJobs(h, refs) ==
    IF refs = {} THEN h
    ELSE LET r == CHOOSE x \in refs : \A y \in refs : x <= y
             h1 == IF h[r].Jobs = 0
                   THEN [Append(h, EmptyJobs) EXCEPT ![r].Jobs = Len(h) + 1]
                   ELSE h
         IN  SaveStageJobs(h1, refs \ {r})

\* a Save that leaves a nil Jobs map as it is
SaveJobsMapLeftNil(h, build) == [h |-> h, r |-> build.Jobs]

\* if build.Jobs == nil { build.Jobs = make(map[int]*Job) }
SaveJobsMap(h, build) ==
    IF build.Jobs = 0
    THEN [h |-> Append(h, EmptyJobs), r |-> Len(h) + 1]
    ELSE [h |-> h, r |-> build.Jobs]

\* if build.Stages == nil { ... } else { ... }
SaveStagesMap(h, build) ==
    IF build.Stages = 0
    THEN [h |-> Append(h, EmptyStages), r |-> Len(h) + 1]
    ELSE [h |-> SaveStageJobs(h, {h[build.Stages].m[s] : s \in DOMAIN h[build.Stages].m}),
          r |-> build.Stages]

\* a Save that keeps the entry the key already has
SaveStoreKeepsOld(bs, build) ==
    bs @@ (buildKey(build.Repository, build.ID) :> build)

\* the entry written under the mutex
SaveStore(bs, build) ==
    (buildKey(build.Repository, build.ID) :> build) @@ bs

Save(bs, h, build) ==
    IF build.Repository = NoRepo
    THEN [err |-> ErrNilRepository, builds |-> bs, heap |-> h]
    ELSE LET j == SaveJobsMap(h, build)
             s == SaveStagesMap(j.h, build)
             b == [build EXCEPT !.Jobs = j.r, !.Stages = s.r]
         IN  [err |-> NoErr, builds |-> SaveStore(bs, b), heap |-> s.h]

(***************************************************************************)
(* Cache.SaveJob                                                           *)
(***************************************************************************)
\* jobs[job.ID] = &job
PutJob(h, r, job) == [h EXCEPT ![r].m = (job.ID :> job) @@ @]

\* a SaveJob that stores the job among the build's own jobs before it
\* reports the missing stage
SaveJobThenCheck(bs, h, accountID, buildID, stageID, job) ==
    LET key == buildKey(accountID, buildID)
    IN  IF key \notin DOMAIN bs
        THEN [err |-> ErrNoBuild, heap |-> h]
        ELSE LET build == bs[key]
             IN  IF stageID = 0 \/ stageID \notin DOMAIN h[build.Stages].m
                 THEN [err |-> IF stageID = 0 THEN NoErr ELSE ErrNoStage,
                       heap |-> PutJob(h, build.Jobs, job)]
                 ELSE [err |-> NoErr,
                       heap |-> PutJob(h, h[h[build.Stages].m[stageID]].Jobs, job)]

SaveJob(bs, h, accountID, buildID, stageID, job) ==
    LET key == buildKey(accountID, buildID)
    IN  IF key \notin DOMAIN bs
        THEN [err |-> ErrNoBuild, heap |-> h]
        ELSE LET build == bs[key]
             IN  IF stageID = 0
                 THEN [err |-> NoErr, heap |-> PutJob(h, build.Jobs, job)]
                 ELSE IF stageID \notin DOMAIN h[build.Stages].m
                      THEN [err |-> ErrNoStage, heap |-> h]
                      ELSE [err |-> NoErr,
                            heap |-> PutJob(h, h[h[build.Stages].m[stageID]].Jobs, job)]

(***************************************************************************)
(* Cache.Builds: the Build values, each a copy of the struct (its maps     *)
(* are the cached build's own maps).                                       *)
(***************************************************************************)
Builds(bs) == {bs[k] : k \in DOMAIN bs}

(***************************************************************************)
(* Build.Get, Cache.fetchBuild, Cache.fetchJob                             *)
(***************************************************************************)
Get(h, build, stageID, jobID) ==
    LET jobs == IF stageID = 0 THEN build.Jobs
                ELSE IF stageID \in DOMAIN h[build.Stages].m
                     THEN h[h[build.Stages].m[stageID]].Jobs
                     ELSE 0
    IN  IF jobs = 0 \/ jobID \notin DOMAIN h[jobs].m
        THEN [exists |-> FALSE, job |-> Job(0, Unknown, NoLog)]
        ELSE [exists |-> TRUE, job |-> h[jobs].m[jobID]]

fetchBuild(bs, accountID, buildID) ==
    buildKey(accountID, buildID) \in DOMAIN bs

fetchJob(bs, h, accountID, buildID, stageID, jobID) ==
    IF fetchBuild(bs, accountID, buildID)
    THEN Get(h, bs[buildKey(accountID, buildID)], stageID, jobID)
    ELSE [exists |-> FALSE, job |-> Job(0, Unknown, NoLog)]

(***************************************************************************)
(* Cache.WriteLog                                                          *)
(***************************************************************************)
\* strings.HasSuffix(log, "\n")
HasNewlineSuffix(log) == Len(log) > 0 /\ log[Len(log)] = "\n"

\* the string handed to utils.PostProcess and then to writer.Write
LogToWrite(log) == IF HasNewlineSuffix(log) THEN log ELSE Append(log, "\n")

\* the tail of WriteLog: writer.Write's error is WriteLog's result
WriteLogOut(h, called, log, werr) ==
    [err |-> IF werr THEN ErrWriter ELSE NoErr, heap |-> h, called |-> called,
     out |-> LogToWrite(log)]

WriteLogFail(h, called, e) ==
    [err |-> e, heap |-> h, called |-> called, out |-> <<>>]

\* a WriteLog that stores the log whether it is complete or not
WriteLogStoreAlways(bs, h, accountID, buildID, stageID, job, complete) ==
    SaveJob(bs, h, accountID, buildID, stageID, job)

\* if complete { err = c.SaveJob(...) }
WriteLogStore(bs, h, accountID, buildID, stageID, job, complete) ==
    IF complete THEN SaveJob(bs, h, accountID, buildID, stageID, job)
    ELSE [err |-> NoErr, heap |-> h]

\* res is what provider.Log returns if called: [log, complete, err];
\* werr tells whether writer.Write fails
WriteLog(bs, h, provs, accountID, buildID, stageID, jobID, res, werr) ==
    IF ~fetchBuild(bs, accountID, buildID) THEN WriteLogFail(h, FALSE, ErrNoBuild)
    ELSE LET got == fetchJob(bs, h, accountID, buildID, stageID, jobID)
         IN  IF ~got.exists THEN WriteLogFail(h, FALSE, ErrNoJob)
             ELSE IF got.job.Log.Valid
             THEN WriteLogOut(h, FALSE, got.job.Log.String, werr)
             ELSE IF accountID \notin provs THEN WriteLogFail(h, FALSE, ErrNoProvider)
             ELSE IF res.err THEN WriteLogFail(h, TRUE, ErrProviderLog)
             ELSE LET job == [got.job EXCEPT !.Log = NullString(res.log)]
                      sj == WriteLogStore(bs, h, accountID, buildID, stageID, job,
                                          res.complete)
                  IN  IF sj.err # NoErr THEN WriteLogFail(sj.heap, TRUE, sj.err)
                      ELSE WriteLogOut(sj.heap, TRUE, job.Log.String, werr)

(***************************************************************************)
(* The Build values callers pass to Save, seen by value.                   *)
(***************************************************************************)
JobMaps == {NilMap} \cup {MapOf(1 :> Job(1, Running, NoLog))}
StageMaps == {NilMap} \cup {MapOf(1 :> [ID |-> 1, Jobs |-> NilMap])}
BuildValues ==
    [Repository : Accounts \cup {NoRepo}, ID : BuildIDs, State : {Running, Passed},
     UpdatedAt : {1}, Stages : StageMaps, Jobs : JobMaps]

\* the jobs callers pass to SaveJob
JobValues == {Job(1, Passed, NoLog), Job(1, Passed, NullString(LogB))}

\* what provider.Log may return
LogResults == [log : {LogA, LogB}, complete : BOOLEAN, err : {FALSE}]
                  \cup {[log |-> <<>>, complete |-> FALSE, err |-> TRUE]}

(***************************************************************************)
(* The calls of Spec: any caller, any method, one call at a time.          *)
(***************************************************************************)
Called(op, e, called, out) ==
    [op |-> op, err |-> e, called |-> called, out |-> out]

CallSave(t) ==
    /\ nops < MaxOps
    /\ LET a == AllocBuild(heap, t)
           r == Save(builds, a.h, a.b)
       IN  /\ builds' = r.builds
           /\ heap' = r.heap
           /\ last' = Called("Save", r.err, FALSE, <<>>)
    /\ nops' = nops + 1
    /\ UNCHANGED <<lockVars, frame, providers, snap, snapTaken, snapAt, ufpVars, rowVars>>

CallSaveJob(accountID, buildID, stageID, job) ==
    /\ nops < MaxOps
    /\ LET r == SaveJob(builds, heap, accountID, buildID, stageID, job)
       IN  /\ heap' = r.heap
           /\ last' = Called("SaveJob", r.err, FALSE, <<>>)
    /\ nops' = nops + 1
    /\ UNCHANGED <<lockVars, frame, builds, providers, snap, snapTaken, snapAt, ufpVars,
                   rowVars>>

CallBuilds ==
    /\ nops < MaxOps
    /\ snap' = Builds(builds)
    /\ snapTaken' = TRUE
    /\ snapAt' = {DeepBuild(heap, b) : b \in Builds(builds)}
    /\ last' = Called("Builds", NoErr, FALSE, <<>>)
    /\ nops' = nops + 1
    /\ UNCHANGED <<lockVars, frame, cacheVars, ufpVars, rowVars>>

CallWriteLog(accountID, buildID, stageID, jobID, res, werr) ==
    /\ nops < MaxOps
    /\ LET r == WriteLog(builds, heap, providers, accountID, buildID, stageID, jobID,
                         res, werr)
       IN  /\ heap' = r.heap
           /\ last' = Called("WriteLog", r.err, r.called, r.out)
    /\ nops' = nops + 1
    /\ UNCHANGED <<lockVars, frame, builds, providers, snap, snapTaken, snapAt, ufpVars,
                   rowVars>>

vars == <<cacheVars, apiVars, ufpVars, rowVars, lockVars, frame>>

\* error values of UpdateFromProviders: the message, and the goroutine that
\* made the value (errors.New makes a new value at each call; nil and
\* ErrRepositoryNotFound are the same value everywhere)
Error(msg, by) == [msg |-> msg, by |-> by]
NilE == Error(NoErr, "")
NotFoundE == Error(ErrRepositoryNotFound, "")
\* no value yet
NoneE == Error("(none)", "")
ErrProviderBuilds == "provider.Builds failed"

\* NewRepositoryBuilds: rows, treeIndex, dfsTraversal and dfsIndex are nil,
\* dfsUpToDate is false
NewRepositoryBuilds ==
    /\ rows = <<>>
    /\ treeIndex = <<>>
    /\ dfsUpToDate = FALSE
    /\ dfsTraversal = <<>>
    /\ dfsIndex = <<>>
    /\ dfsRows = [shared |-> TRUE, rows |-> <<>>]

\* no UpdateFromProviders call is in progress
UFPIdle ==
    /\ consPC = [p \in Accounts |-> "idle"]
    /\ prodPC = [p \in Accounts |-> "idle"]
    /\ hand = [p \in Accounts |-> <<>>]
    /\ perr = [p \in Accounts |-> NoneE]
    /\ cerr = [p \in Accounts |-> NoneE]
    /\ left = [p \in Accounts |-> 0]
    /\ buildcClosed = [p \in Accounts |-> FALSE]
    /\ wg = 0
    /\ errcClosed = FALSE
    /\ ctxDone = FALSE
    /\ callerCancelled = FALSE
    /\ mainPC = "idle"
    /\ err = NilE
    /\ notFound = 0
    /\ pending = 0
    /\ streamed = [p \in Accounts |-> <<>>]
    /\ firstOther = NoneE
    /\ cachedBefore = <<>>
    /\ saved = [p \in Accounts |-> <<>>]

\* NewCache with one provider, of account "a1"
Init ==
    /\ builds = <<>>
    /\ heap = <<>>
    /\ providers = {"a1"}
    /\ snap = {}
    /\ snapTaken = FALSE
    /\ snapAt = {}
    /\ last = Called("NewCache", NoErr, FALSE, <<>>)
    /\ nops = 0
    /\ NoGoroutine
    /\ UFPIdle
    /\ NewRepositoryBuilds

Next ==
    \/ \E t \in BuildValues : CallSave(t)
    \/ \E a \in Accounts, b \in BuildIDs, s \in StageIDs \cup {0}, j \in JobValues :
          CallSaveJob(a, b, s, j)
    \/ CallBuilds
    \/ \E a \in Accounts, b \in BuildIDs, s \in StageIDs \cup {0}, j \in JobIDs,
          res \in LogResults, werr \in BOOLEAN :
          CallWriteLog(a, b, s, j, res, werr)

Spec == Init /\ [][Next]_vars

(***************************************************************************)
(* Cache.UpdateFromProviders.  The behaviours of SpecUFP are those of one  *)
(* call, from the point where the calling goroutine has started one        *)
(* goroutine per provider (wg.Add(1) each) and the goroutine that waits    *)
(* for wg, and is about to range over errc.  (What a started goroutine     *)
(* does before the loop ends it can equally do after: until then nothing   *)
(* receives from errc and wg is positive.)  Channels are unbuffered: a     *)
(* send and its receive are one step.  A goroutine's last statement and    *)
(* its deferred calls are one step: only wg.Wait() reads what they write.  *)
(***************************************************************************)
\* the Build values provider p sends on its channel
StreamValues(p) ==
    [Repository : {p}, ID : BuildIDs, State : {Running, Passed},
     UpdatedAt : {1}, Stages : {NilMap}, Jobs : {NilMap}]
       \cup [Repository : {NoRepo}, ID : BuildIDs, State : {Running},
             UpdatedAt : {1}, Stages : {NilMap}, Jobs : {NilMap}]

\* what p.Builds may return
BuildsResults(p) == {NilE, NotFoundE, Error(ErrProviderBuilds, p)}

\* a build saved before the call, by value
OldBuild ==
    [Repository |-> "a1", ID |-> "b1", State |-> Failed, UpdatedAt |-> 1,
     Stages |-> MapOf(<<>>), Jobs |-> MapOf(1 :> Job(1, Failed, NoLog))]

\* a drain that makes ErrRepositoryNotFound the result as soon as one
\* provider reports it
DrainErrOnFirstNotFound(e, olderr, nf, n) ==
    IF e = NilE THEN olderr
    ELSE IF e = NotFoundE
         THEN NotFoundE
         ELSE IF olderr = NilE THEN e ELSE olderr

\* the body of `for e := range errc`: the new value of err
DrainErr(e, olderr, nf, n) ==
    IF e = NilE THEN olderr
    ELSE IF e = NotFoundE
         THEN IF nf + 1 = n THEN NotFoundE ELSE olderr
         ELSE IF olderr = NilE THEN e ELSE olderr

\* a drain that calls cancel() for ErrRepositoryNotFound too
DrainCancelsOnNotFound(e) == e # NilE

\* the body of `for e := range errc`: whether cancel() is called
DrainCancels(e) == e \notin {NilE, NotFoundE}

\* the calling goroutine receives e from errc
Drain(e) ==
    /\ mainPC = "drain"
    /\ notFound' = IF e = NotFoundE THEN notFound + 1 ELSE notFound
    /\ err' = DrainErr(e, err, notFound, Cardinality(providers))
    /\ ctxDone' = (ctxDone \/ DrainCancels(e))
    /\ firstOther' = IF e \notin {NilE, NotFoundE} /\ firstOther = NoneE
                     THEN e ELSE firstOther

\* go func(p Provider): wg.Add(1) for the producer, which it starts
ConsumerStart(p) ==
    /\ consPC[p] = "start"
    /\ consPC' = [consPC EXCEPT ![p] = "recv"]
    /\ prodPC' = [prodPC EXCEPT ![p] = "builds"]
    /\ wg' = wg + 1
    /\ UNCHANGED <<lockVars, frame, cacheVars, apiVars, rowVars, hand, perr, cerr, left,
                   buildcClosed,
                   errcClosed, ctxDone, callerCancelled, mainPC, err, notFound,
                   pending, streamed, firstOther, cachedBefore, saved>>

\* a consumer that sends on updates itself, and so is back at its loop
\* only once its signal has been received
CanReceiveAfterSignal(p) == consPC[p] = "recv" /\ pending = 0

\* the consumer is at `for build := range buildc`
CanReceive(p) == consPC[p] = "recv"

\* p.Builds sends the Build value t on buildc and the consumer receives it
ProviderSend(p, t) ==
    /\ prodPC[p] = "builds"
    /\ left[p] > 0
    /\ CanReceive(p)
    /\ LET a == AllocBuild(heap, t)
       IN  /\ heap' = a.h
           /\ hand' = [hand EXCEPT ![p] = <<a.b>>]
    /\ consPC' = [consPC EXCEPT ![p] = "save"]
    /\ left' = [left EXCEPT ![p] = @ - 1]
    /\ streamed' = [streamed EXCEPT ![p] = Append(@, t)]
    /\ UNCHANGED <<lockVars, frame, builds, providers, apiVars, rowVars, prodPC, perr, cerr,
                   buildcClosed, wg,
                   errcClosed, ctxDone, callerCancelled, mainPC, err, notFound,
                   pending, firstOther, cachedBefore, saved>>

\* p.Builds returns e: it has streamed all its builds, or subCtx is cancelled
ProviderReturn(p, e) ==
    /\ prodPC[p] = "builds"
    /\ left[p] = 0 \/ ctxDone
    /\ perr' = [perr EXCEPT ![p] = e]
    /\ prodPC' = [prodPC EXCEPT ![p] = "errc"]
    /\ UNCHANGED <<lockVars, frame, cacheVars, apiVars, rowVars, consPC, hand, cerr, left,
                   buildcClosed, wg,
                   errcClosed, ctxDone, callerCancelled, mainPC, err, notFound,
                   pending, streamed, firstOther, cachedBefore, saved>>

\* errc <- p.Builds(...), received by the calling goroutine
ProducerReport(p) ==
    /\ prodPC[p] = "errc"
    /\ Drain(perr[p])
    /\ prodPC' = [prodPC EXCEPT ![p] = "close"]
    /\ UNCHANGED <<lockVars, frame, cacheVars, apiVars, rowVars, consPC, hand, perr, cerr, left,
                   buildcClosed,
                   wg, errcClosed, callerCancelled, mainPC, pending,
                   streamed, cachedBefore, saved>>

\* the producer's deferred calls: close(buildc), then wg.Done()
ProducerClose(p) ==
    /\ prodPC[p] = "close"
    /\ buildcClosed' = [buildcClosed EXCEPT ![p] = TRUE]
    /\ prodPC' = [prodPC EXCEPT ![p] = "done"]
    /\ wg' = wg - 1
    /\ UNCHANGED <<lockVars, frame, cacheVars, apiVars, rowVars, consPC, hand, perr, cerr, left, 
                   errcClosed, ctxDone, callerCancelled, mainPC, err, notFound,
                   pending, streamed, firstOther, cachedBefore, saved>>

\* the key of the build is in the cache
KeyIsCached(b) == b.Repository # NoRepo /\ buildKey(b.Repository, b.ID) \in DOMAIN builds
\* a consumer that saves a build only when its key is not cached yet
ConsumerSaveNewKeys(p) ==
    /\ consPC[p] = "save"
    /\ LET r == IF KeyIsCached(hand[p][1])
                THEN [err |-> NoErr, builds |-> builds, heap |-> heap]
                ELSE Save(builds, heap, hand[p][1])
       IN  /\ builds' = r.builds
           /\ heap' = r.heap
           /\ IF r.err = NoErr
              THEN /\ consPC' = [consPC EXCEPT ![p] = "recv"]
                   /\ pending' = pending + 1
                   /\ cerr' = cerr
              ELSE /\ consPC' = [consPC EXCEPT ![p] = "errc"]
                   /\ pending' = pending
                   /\ cerr' = [cerr EXCEPT ![p] = Error(r.err, p)]
    /\ hand' = [hand EXCEPT ![p] = <<>>]
    /\ saved' = [saved EXCEPT ![p] = IF KeyIsCached(hand[p][1]) THEN @
                                     ELSE Append(@, DeepBuild(heap, hand[p][1]))]
    /\ UNCHANGED <<lockVars, frame, providers, apiVars, rowVars, prodPC, perr, left,
                   buildcClosed, wg,
                   errcClosed, ctxDone, callerCancelled, mainPC, err, notFound,
                   streamed, firstOther, cachedBefore>>

\* if err := c.Save(build); err != nil {...}; go func() { select {...} }()
ConsumerSave(p) ==
    /\ consPC[p] = "save"
    /\ LET r == Save(builds, heap, hand[p][1])
       IN  /\ builds' = r.builds
           /\ heap' = r.heap
           /\ IF r.err = NoErr
              THEN /\ consPC' = [consPC EXCEPT ![p] = "recv"]
                   /\ pending' = pending + 1
                   /\ cerr' = cerr
              ELSE /\ consPC' = [consPC EXCEPT ![p] = "errc"]
                   /\ pending' = pending
                   /\ cerr' = [cerr EXCEPT ![p] = Error(r.err, p)]
    /\ hand' = [hand EXCEPT ![p] = <<>>]
    /\ saved' = [saved EXCEPT ![p] = Append(@, DeepBuild(heap, hand[p][1]))]
    /\ UNCHANGED <<lockVars, frame, providers, apiVars, rowVars, prodPC, perr, left,
                   buildcClosed, wg,
                   errcClosed, ctxDone, callerCancelled, mainPC, err, notFound,
                   streamed, firstOther, cachedBefore>>

\* errc <- err of the consumer, received by the calling goroutine; the
\* consumer returns (its deferred wg.Done())
ConsumerReport(p) ==
    /\ consPC[p] = "errc"
    /\ Drain(cerr[p])
    /\ consPC' = [consPC EXCEPT ![p] = "done"]
    /\ wg' = wg - 1
    /\ UNCHANGED <<lockVars, frame, cacheVars, apiVars, rowVars, prodPC, hand, perr, cerr, left,
                   buildcClosed,
                   errcClosed, callerCancelled, mainPC, pending,
                   streamed, cachedBefore, saved>>

\* the consumer leaves its loop because buildc is closed, and returns (its
\* deferred wg.Done())
ConsumerEnd(p) ==
    /\ CanReceive(p)
    /\ buildcClosed[p]
    /\ consPC' = [consPC EXCEPT ![p] = "done"]
    /\ wg' = wg - 1
    /\ UNCHANGED <<lockVars, frame, cacheVars, apiVars, rowVars, prodPC, hand, perr, cerr, left,
                   buildcClosed,
                   errcClosed, ctxDone, callerCancelled, mainPC, err, notFound,
                   pending, streamed, firstOther, cachedBefore, saved>>

\* go func() { wg.Wait(); close(errc) }()
Supervisor ==
    /\ mainPC = "drain"
    /\ ~errcClosed
    /\ wg = 0
    /\ errcClosed' = TRUE
    /\ UNCHANGED <<lockVars, frame, cacheVars, apiVars, rowVars, consPC, prodPC, hand, perr,
                   cerr, left,
                   buildcClosed, wg, ctxDone, callerCancelled, mainPC, err, notFound,
                   pending, streamed, firstOther, cachedBefore, saved>>

\* the range over errc ends: return err, and the deferred cancel()
MainReturn ==
    /\ mainPC = "drain"
    /\ errcClosed
    /\ mainPC' = "returned"
    /\ ctxDone' = TRUE
    /\ UNCHANGED <<lockVars, frame, cacheVars, apiVars, rowVars, consPC, prodPC, hand, perr,
                   cerr, left,
                   buildcClosed, wg, errcClosed, callerCancelled, err, notFound,
                   pending, streamed, firstOther, cachedBefore, saved>>

\* case updates <- time.Now(): somebody receives from updates
NotifierSend ==
    /\ pending > 0
    /\ pending' = pending - 1
    /\ UNCHANGED <<lockVars, frame, cacheVars, apiVars, rowVars, consPC, prodPC, hand, perr,
                   cerr, left,
                   buildcClosed, wg, errcClosed, ctxDone, callerCancelled, mainPC,
                   err, notFound, streamed, firstOther, cachedBefore, saved>>

\* case <-subCtx.Done()
NotifierDrop ==
    /\ pending > 0
    /\ ctxDone
    /\ pending' = pending - 1
    /\ UNCHANGED <<lockVars, frame, cacheVars, apiVars, rowVars, consPC, prodPC, hand, perr,
                   cerr, left,
                   buildcClosed, wg, errcClosed, ctxDone, callerCancelled, mainPC,
                   err, notFound, streamed, firstOther, cachedBefore, saved>>

\* the caller cancels ctx, and with it subCtx
CallerCancel ==
    /\ mainPC = "drain"
    /\ ~callerCancelled
    /\ callerCancelled' = TRUE
    /\ ctxDone' = TRUE
    /\ UNCHANGED <<lockVars, frame, cacheVars, apiVars, rowVars, consPC, prodPC, hand, perr,
                   cerr, left,
                   buildcClosed, wg, errcClosed, mainPC, err, notFound, pending,
                   streamed, firstOther, cachedBefore, saved>>

\* a cache with any set of providers, empty or holding OldBuild, on which
\* UpdateFromProviders has just started its goroutines
InitUFP ==
    /\ providers \in SUBSET Accounts
    /\ \E old \in BOOLEAN :
          LET a == AllocBuild(<<>>, OldBuild)
          IN  /\ heap = IF old THEN a.h ELSE <<>>
              /\ builds = IF old THEN SaveStore(<<>>, a.b) ELSE <<>>
    /\ cachedBefore = DeepCache(builds, heap)
    /\ snap = {}
    /\ snapTaken = FALSE
    /\ snapAt = {}
    /\ last = Called("UpdateFromProviders", NoErr, FALSE, <<>>)
    /\ nops = 0
    /\ NoGoroutine
    /\ consPC = [p \in Accounts |-> IF p \in providers THEN "start" ELSE "idle"]
    /\ prodPC = [p \in Accounts |-> "idle"]
    /\ hand = [p \in Accounts |-> <<>>]
    /\ perr = [p \in Accounts |-> NoneE]
    /\ cerr = [p \in Accounts |-> NoneE]
    /\ left \in [Accounts -> 0..MaxStream]
    /\ \A p \in Accounts \ providers : left[p] = 0
    /\ left["a1"] + left["a2"] <= MaxStream
    /\ buildcClosed = [p \in Accounts |-> FALSE]
    /\ wg = Cardinality(providers)
    /\ errcClosed = FALSE
    /\ ctxDone = FALSE
    /\ callerCancelled = FALSE
    /\ mainPC = "drain"
    /\ err = NilE
    /\ notFound = 0
    /\ pending = 0
    /\ streamed = [p \in Accounts |-> <<>>]
    /\ firstOther = NoneE
    /\ saved = [p \in Accounts |-> <<>>]
    /\ NewRepositoryBuilds

ProviderStep(p) ==
    \/ \E t \in StreamValues(p) : ProviderSend(p, t)
    \/ \E e \in BuildsResults(p) : ProviderReturn(p, e)

NextUFP ==
    \/ \E p \in Accounts : ConsumerStart(p)
    \/ \E p \in Accounts : ProviderStep(p)
    \/ \E p \in Accounts : ProducerReport(p)
    \/ \E p \in Accounts : ProducerClose(p)
    \/ \E p \in Accounts : ConsumerSave(p)
    \/ \E p \in Accounts : ConsumerReport(p)
    \/ \E p \in Accounts : ConsumerEnd(p)
    \/ Supervisor
    \/ MainReturn
    \/ NotifierSend
    \/ NotifierDrop
    \/ CallerCancel

SpecUFP == InitUFP /\ [][NextUFP]_vars

\* every goroutine that can take a step eventually takes one, and p.Builds
\* does not stop for ever while it can send or may return; nothing makes
\* anybody receive from updates, and nothing makes the caller cancel
FairUFP ==
    /\ SpecUFP
    /\ \A p \in Accounts :
          /\ WF_vars(ConsumerStart(p))
          /\ WF_vars(ProviderStep(p))
          /\ WF_vars(ProducerReport(p))
          /\ WF_vars(ProducerClose(p))
          /\ WF_vars(ConsumerSave(p))
          /\ WF_vars(ConsumerReport(p))
          /\ WF_vars(ConsumerEnd(p))
    /\ WF_vars(Supervisor)
    /\ WF_vars(MainReturn)
    /\ WF_vars(NotifierDrop)

(***************************************************************************)
(* RepositoryBuilds: the forest of rows built from the cache.  A pointer   *)
(* to a row is the path of the row in the forest: the index of its       *)
(* tree, then the index of each child.  The rows of a job carry the build  *)
(* and the stage that own the job, which buildRowFromJob reads to make the *)
(* key (stageID is 0 for a job that a build owns directly).                *)
(***************************************************************************)
\* buildRowKey struct
buildRowKey(accountID, buildID, stageID, jobID) ==
    [accountID |-> accountID, buildID |-> buildID, stageID |-> stageID,
     jobID |-> jobID]

\* sql.NullTime
NoTime == [Valid |-> FALSE, Time |-> 0]
ValidTime(t) == [Valid |-> TRUE, Time |-> t]

\* buildRow struct as the buildRowFrom... functions make it: the key, the
\* kind of node, the time FetchRows sorts by, the children; not traversable,
\* with an empty prefix
buildRow(key, type_, updatedAt, children) ==
    [key |-> key, type_ |-> type_, updatedAt |-> updatedAt,
     children |-> children, traversable |-> FALSE, prefix |-> <<>>]

\* sort.Ints
RECURSIVE SortInts(_)
SortInts(S) ==
    IF S = {} THEN <<>>
    ELSE LET m == CHOOSE x \in S : \A y \in S : x <= y
         IN  <<m>> \o SortInts(S \ {m})

buildRowFromJob(accountID, buildID, stageID, j) ==
    buildRow(buildRowKey(accountID, buildID, stageID, j.ID), "J", NoTime, <<>>)

\* for _, jobID := range jobIDs { row.children = append(row.children, ...) }
\* over the job map of reference r
JobRows(h, r, accountID, buildID, stageID) ==
    IF r = 0 THEN <<>>
    ELSE LET ids == SortInts(DOMAIN h[r].m)
         IN  [i \in 1..Len(ids) |->
                 buildRowFromJob(accountID, buildID, stageID, h[r].m[ids[i]])]

\* the Stage struct is the heap object of reference r
buildRowFromStage(h, accountID, buildID, r) ==
    buildRow(buildRowKey(accountID, buildID, h[r].ID, 0), "S", NoTime,
             JobRows(h, h[r].Jobs, accountID, buildID, h[r].ID))

buildRowFromBuild(h, b) ==
    LET ids == IF b.Stages = 0 THEN <<>> ELSE SortInts(DOMAIN h[b.Stages].m)
    IN  buildRow(buildRowKey(b.Repository, b.ID, 0, 0), "P", ValidTime(b.UpdatedAt),
                 JobRows(h, b.Jobs, b.Repository, b.ID, 0)
                 \o [i \in 1..Len(ids) |->
                        buildRowFromStage(h, b.Repository, b.ID,
                                          h[b.Stages].m[ids[i]])])

\* the row a pointer names
NodeAt(rs, path) ==
    IF Len(path) = 1 THEN rs[path[1]]
    ELSE IF Len(path) = 2 THEN rs[path[1]].children[path[2]]
    ELSE rs[path[1]].children[path[2]].children[path[3]]

\* row.traversable = v through the pointer path
SetFlag(rs, path, v) ==
    IF Len(path) = 1 THEN [rs EXCEPT ![path[1]].traversable = v]
    ELSE IF Len(path) = 2
         THEN [rs EXCEPT ![path[1]].children[path[2]].traversable = v]
         ELSE [rs EXCEPT ![path[1]].children[path[2]].children[path[3]].traversable = v]

\* a loop that sets the flag of the parent of each node as well
RECURSIVE SetFlagsWithParents(_, _, _)
SetFlagsWithParents(rs, paths, v) ==
    IF paths = <<>> THEN rs
    ELSE LET p == Head(paths)
             r1 == SetFlag(rs, p, v)
             r2 == IF Len(p) > 1 THEN SetFlag(r1, SubSeq(p, 1, Len(p) - 1), v) ELSE r1
         IN  SetFlagsWithParents(r2, Tail(paths), v)

RECURSIVE SetFlags(_, _, _)
SetFlags(rs, paths, v) ==
    IF paths = <<>> THEN rs
    ELSE SetFlags(SetFlag(rs, Head(paths), v), Tail(paths), v)

\* utils.DepthFirstTraversal(node, traverseAll): pointers to the node and to
\* its descendants, parents before children and children in order; the
\* children of a node that is not traversable are left out unless traverseAll
RECURSIVE DepthFirstTraversal(_, _, _)
RECURSIVE TraverseChildren(_, _, _, _)
DepthFirstTraversal(rs, path, traverseAll) ==
    <<path>> \o (IF traverseAll \/ NodeAt(rs, path).traversable
                 THEN TraverseChildren(rs, path, 1, traverseAll)
                 ELSE <<>>)

TraverseChildren(rs, path, i, traverseAll) ==
    IF i > Len(NodeAt(rs, path).children) THEN <<>>
    ELSE DepthFirstTraversal(rs, Append(path, i), traverseAll)
         \o TraverseChildren(rs, path, i + 1, traverseAll)

\* for i := range rows { utils.DepthFirstTraversal(&rows[i], true) ... }:
\* the pointers in the order the loops of FetchRows visit them, from tree i
RECURSIVE TraverseRows(_, _)
TraverseRows(rs, i) ==
    IF i > Len(rs) THEN <<>>
    ELSE DepthFirstTraversal(rs, <<i>>, TRUE) \o TraverseRows(rs, i + 1)

\* a FetchRows that records the flags of the top-level rows only
TraversablesOfRoots(rs) ==
    {rs[i].key : i \in {j \in 1..Len(rs) : rs[j].traversable}}

\* FetchRows, "Save traversable state of current nodes": the keys of the map
\* traversables (every value of the map is true)
Traversables(rs) ==
    LET t == TraverseRows(rs, 1)
    IN  {NodeAt(rs, t[j]).key : j \in {i \in 1..Len(t) : NodeAt(rs, t[i]).traversable}}

\* the less function given to sort.Slice
less(x, y) ==
    x.updatedAt.Valid /\ y.updatedAt.Valid /\ x.updatedAt.Time > y.updatedAt.Time

\* sort.Slice: the orders it may leave the rows S in (it is not stable, and
\* the rows come from the iteration of a map)
SortSlice(S) ==
    {f \in [1..Cardinality(S) -> S] :
        /\ \A i, j \in 1..Cardinality(S) : i # j => f[i] # f[j]
        /\ \A i, j \in 1..Cardinality(S) : i < j => ~less(f[j], f[i])}

\* FetchRows, the loop that fills treeIndex and restores the flags: idx is
\* treeIndex so far, paths the pointers still to visit
RECURSIVE Restore(_, _, _, _)
Restore(rs, idx, paths, keys) ==
    IF paths = <<>> THEN [rows |-> rs, treeIndex |-> idx]
    ELSE LET p == Head(paths)
             k == NodeAt(rs, p).key
         IN  Restore(IF k \in keys THEN SetFlag(rs, p, TRUE) ELSE rs,
                     [x \in DOMAIN idx \cup {k} |-> IF x = k THEN p ELSE idx[x]],
                     Tail(paths), keys)

FetchRows ==
    /\ \E sorted \in SortSlice({buildRowFromBuild(heap, b) : b \in Builds(builds)}) :
          LET r == Restore(sorted, <<>>, TraverseRows(sorted, 1), Traversables(rows))
          IN  /\ rows' = r.rows
              /\ treeIndex' = r.treeIndex
    /\ dfsUpToDate' = FALSE
    /\ dfsRows' = IF dfsRows.shared THEN [shared |-> FALSE, rows |-> rows] ELSE dfsRows
    /\ last' = Called("FetchRows", NoErr, FALSE, <<>>)
    /\ UNCHANGED <<lockVars, frame, cacheVars, snap, snapTaken, snapAt, nops, ufpVars, dfsTraversal,
                   dfsIndex>>

\* a key of another type, and the error SetTraversable returns for it
NotAKey == [other |-> "not a buildRowKey"]
ErrKeyType == "expected key of concrete type buildRowKey"

RowKeys ==
    {buildRowKey(a, b, s, j) :
        a \in Accounts, b \in BuildIDs, s \in StageIDs \cup {0}, j \in JobIDs \cup {0}}

SetTraversable(key, traversable, recursive) ==
    /\ IF key \notin RowKeys
       THEN /\ last' = Called("SetTraversable", ErrKeyType, FALSE, <<>>)
            /\ UNCHANGED rowVars
       ELSE /\ last' = Called("SetTraversable", NoErr, FALSE, <<>>)
            /\ IF key \in DOMAIN treeIndex
               THEN LET row == treeIndex[key]
                        rs == SetFlag(rows, row, traversable)
                    IN  /\ rows' = IF recursive
                                   THEN SetFlags(rs, DepthFirstTraversal(rs, row, TRUE),
                                                 traversable)
                                   ELSE rs
                        /\ dfsUpToDate' = FALSE
                        /\ UNCHANGED <<treeIndex, dfsTraversal, dfsIndex, dfsRows>>
               ELSE UNCHANGED rowVars
    /\ UNCHANGED <<lockVars, frame, cacheVars, snap, snapTaken, snapAt, nops, ufpVars>>

\* the builds saved while a RepositoryBuilds is in use: the build of account
\* "a1" has a job and a stage with a job, or nothing, and is updated at time
\* 1 or 2; the build of account "a2" has a job and is updated at time 1
StageWithJob == MapOf(1 :> [ID |-> 1, Jobs |-> MapOf(1 :> Job(1, Running, NoLog))])
JobOnly == MapOf(1 :> Job(1, Running, NoLog))
RowBuild(accountID, updatedAt, stages, jobs) ==
    [Repository |-> accountID, ID |-> "b1", State |-> Running,
     UpdatedAt |-> updatedAt, Stages |-> stages, Jobs |-> jobs]
RowBuildValues ==
    {RowBuild("a1", t, StageWithJob, JobOnly) : t \in {1, 2}}
    \cup {RowBuild("a1", t, NilMap, NilMap) : t \in {1, 2}}
    \cup {RowBuild("a2", 1, NilMap, JobOnly)}

NextRows ==
    \/ \E t \in RowBuildValues : CallSave(t)
    \/ FetchRows
    \/ \E key \in RowKeys \cup {NotAKey}, traversable \in BOOLEAN, recursive \in BOOLEAN :
          SetTraversable(key, traversable, recursive)

SpecRows == Init /\ [][NextRows]_vars

(***************************************************************************)
(* The mutex of the cache.  Each goroutine makes one call of Save,         *)
(* SaveJob, Builds, WriteLog or UpdateFromProviders; a step is the         *)
(* acquisition of c.mutex, the access to c.builds made while it is held,   *)
(* its release, or the return of a provider call.  For a goroutine in      *)
(* UpdateFromProviders the steps are those of the goroutine that ranges    *)
(* over buildc, and prod is the goroutine that calls p.Builds.  What the   *)
(* map holds is left out: every outcome of a lookup is possible.           *)
(***************************************************************************)
Methods == {"Save", "SaveJob", "Builds", "WriteLog", "UpdateFromProviders"}

\* the goroutine goes on from where it is to where
Goes(g, where) ==
    gor' = [gor EXCEPT ![g] = where]

\* the call begins: Save returns at once when build.Repository is nil,
\* WriteLog begins with fetchBuild, UpdateFromProviders starts the goroutine
\* that calls p.Builds and ranges over buildc
Start(g, op) ==
    /\ gor[g] = Idle
    /\ \/ /\ op \in {"Save", "SaveJob", "Builds"}
          /\ Goes(g, At(op, op, "lock", 0))
          /\ UNCHANGED prod
       \/ /\ op = "Save"
          /\ Goes(g, At(op, op, "done", 0))
          /\ UNCHANGED prod
       \/ /\ op = "WriteLog"
          /\ Goes(g, At(op, "fetchBuild", "lock", 0))
          /\ UNCHANGED prod
       \/ /\ op = "UpdateFromProviders"
          /\ \E n \in 0..MaxStream : Goes(g, At(op, op, "range", n))
          /\ prod' = [prod EXCEPT ![g] = "Builds"]
    /\ UNCHANGED <<mutex, frame, cacheVars, apiVars, ufpVars, rowVars>>

\* a goroutine that reaches the map without locking
LockSkipped(g) ==
    /\ gor[g].pos = "lock"
    /\ Goes(g, [gor[g] EXCEPT !.pos = "map"])
    /\ UNCHANGED <<mutex, prod, frame, cacheVars, apiVars, ufpVars, rowVars>>

\* c.mutex.Lock()
Lock(g) ==
    /\ gor[g].pos = "lock"
    /\ mutex = 0
    /\ mutex' = g
    /\ Goes(g, [gor[g] EXCEPT !.pos = "map"])
    /\ UNCHANGED <<prod, frame, cacheVars, apiVars, ufpVars, rowVars>>

\* c.builds[key] = &build, build, exists := c.builds[key], range c.builds
Access(g) ==
    /\ gor[g].pos = "map"
    /\ Goes(g, [gor[g] EXCEPT !.pos = "unlock"])
    /\ UNCHANGED <<mutex, prod, frame, cacheVars, apiVars, ufpVars, rowVars>>

\* where the goroutine goes when the function that locked returns:
\* fetchBuild called by WriteLog is followed by fetchJob when the build
\* exists, fetchBuild called by fetchJob by the call of provider.Log when
\* the job exists and has no log; Save called by UpdateFromProviders is
\* followed by the next receive from buildc
AfterUnlock(w) ==
    IF w.fn = "fetchBuild"
    THEN {At(w.op, "fetchJob", "lock", 0), At(w.op, "WriteLog", "done", 0)}
    ELSE IF w.fn = "fetchJob"
    THEN {At(w.op, "Log", "call", 0), At(w.op, "WriteLog", "done", 0)}
    ELSE IF w.op = "UpdateFromProviders"
    THEN {At(w.op, w.op, "range", w.left)}
    ELSE {At(w.op, w.op, "done", 0)}

\* defer c.mutex.Unlock()
Unlock(g) ==
    /\ gor[g].pos = "unlock"
    /\ mutex' = IF mutex = g THEN 0 ELSE mutex
    /\ \E where \in AfterUnlock(gor[g]) : Goes(g, where)
    /\ UNCHANGED <<prod, frame, cacheVars, apiVars, ufpVars, rowVars>>

\* provider.Log returns: an error or an incomplete log ends WriteLog, a
\* complete log is stored by SaveJob
LogReturns(g) ==
    /\ gor[g].fn = "Log"
    /\ \E where \in {At("WriteLog", "SaveJob", "lock", 0),
                      At("WriteLog", "WriteLog", "done", 0)} : Goes(g, where)
    /\ UNCHANGED <<mutex, prod, frame, cacheVars, apiVars, ufpVars, rowVars>>

\* for build := range buildc: p.Builds sends a build and the goroutine calls
\* Save, which returns at once when build.Repository is nil
Receive(g) ==
    /\ gor[g].pos = "range"
    /\ prod[g] = "Builds"
    /\ gor[g].left > 0
    /\ \E where \in {At(gor[g].op, "Save", "lock", gor[g].left - 1),
                      At(gor[g].op, gor[g].op, "done", 0)} : Goes(g, where)
    /\ UNCHANGED <<mutex, prod, frame, cacheVars, apiVars, ufpVars, rowVars>>

\* p.Builds returns and buildc is closed
BuildsReturns(g) ==
    /\ prod[g] = "Builds"
    /\ prod' = [prod EXCEPT ![g] = "returned"]
    /\ UNCHANGED <<mutex, gor, frame, cacheVars, apiVars, ufpVars, rowVars>>

\* the range over the closed buildc ends
RangeEnds(g) ==
    /\ gor[g].pos = "range"
    /\ prod[g] = "returned"
    /\ Goes(g, At(gor[g].op, gor[g].op, "done", 0))
    /\ UNCHANGED <<mutex, prod, frame, cacheVars, apiVars, ufpVars, rowVars>>

NextLock ==
    \E g \in Goroutines :
        \/ \E op \in Methods : Start(g, op)
        \/ Lock(g)
        \/ Access(g)
        \/ Unlock(g)
        \/ LogReturns(g)
        \/ Receive(g)
        \/ BuildsReturns(g)
        \/ RangeEnds(g)

SpecLock == Init /\ [][NextLock]_vars

\* the scheduler lets every goroutine that can run make its next step; a
\* provider call need not return nor send
FairLock ==
    /\ SpecLock
    /\ \A g \in Goroutines : WF_vars(Lock(g) \/ Access(g) \/ Unlock(g) \/ RangeEnds(g))

(***************************************************************************)
(* AggregateStatuses, applied to every collection of at most MaxChildren   *)
(* children.  A child is its status and whether it is allowed to fail.     *)
(***************************************************************************)
MaxChildren == 3

States == {Unknown, Pending, Running, Passed, Failed, Canceled, Manual, Skipped}

\* a precedence that ranks Running below Passed
statePrecedenceRunningLow ==
    (Unknown :> 80) @@ (Running :> 25) @@ (Pending :> 60) @@ (Canceled :> 50)
    @@ (Failed :> 40) @@ (Passed :> 30) @@ (Skipped :> 20) @@ (Manual :> 10)

statePrecedence ==
    (Unknown :> 80) @@ (Running :> 70) @@ (Pending :> 60) @@ (Canceled :> 50)
    @@ (Failed :> 40) @@ (Passed :> 30) @@ (Skipped :> 20) @@ (Manual :> 10)

Statuser(status, allowedFailure) == [Status |-> status, AllowedFailure |-> allowedFailure]
Statusers == {Statuser(status, allowedFailure) : status \in States, allowedFailure \in BOOLEAN}

\* the loop over ss[i..], state being the value so far
RECURSIVE AggregateFrom(_, _, _)
AggregateFrom(ss, i, state) ==
    IF i > Len(ss) THEN state
    ELSE LET child == ss[i]
         IN  AggregateFrom(ss, i + 1,
                 IF /\ \/ ~child.AllowedFailure
                       \/ (child.Status # Canceled /\ child.Status # Failed)
                    /\ statePrecedence[child.Status] > statePrecedence[state]
                 THEN child.Status
                 ELSE state)

AggregateStatuses(ss) ==
    IF Len(ss) = 0 THEN Unknown
    ELSE AggregateFrom(ss, 1, ss[1].Status)

\* the collections of children
Collections == UNION {[1..n -> Statusers] : n \in 0..MaxChildren}

InitAgg ==
    /\ builds = <<>>
    /\ heap = <<>>
    /\ providers = {}
    /\ snap = {}
    /\ snapTaken = FALSE
    /\ snapAt = {}
    /\ nops = 0
    /\ NoGoroutine
    /\ UFPIdle
    /\ NewRepositoryBuilds
    /\ \E ss \in Collections : last = Called("Statusers", NoErr, FALSE, [ss |-> ss])

CallAggregateStatuses ==
    /\ last.op = "Statusers"
    /\ last' = Called("AggregateStatuses", NoErr, FALSE,
                      [ss |-> last.out.ss, state |-> AggregateStatuses(last.out.ss)])
    /\ UNCHANGED <<lockVars, frame, cacheVars, snap, snapTaken, snapAt, nops, ufpVars, rowVars>>

SpecAgg == InitAgg /\ [][CallAggregateStatuses]_vars

(***************************************************************************)
(* RepositoryBuilds: the flattened view and the queries on it.  The        *)
(* operators take the RepositoryBuilds struct as a record s and give back  *)
(* the struct as the call leaves it, with what the call returns.           *)
(***************************************************************************)
\* queries in one behaviour of SpecView
MaxQueries == 2
\* the largest nbrBefore, nbrAfter and limit passed to the queries
MaxAround == 2

\* the RepositoryBuilds value of the current state
Self ==
    [rows |-> rows, treeIndex |-> treeIndex, dfsUpToDate |-> dfsUpToDate,
     dfsTraversal |-> dfsTraversal, dfsIndex |-> dfsIndex, dfsRows |-> dfsRows]

\* utils.Bounded(a, lower, upper): a, brought into lower..upper
Bounded(a, lower, upper) ==
    IF a < lower THEN lower ELSE IF a > upper THEN upper ELSE a

\* buildRow.SetPrefix through the pointer path
SetPrefix(rs, path, prefix) ==
    IF Len(path) = 1 THEN [rs EXCEPT ![path[1]].prefix = prefix]
    ELSE IF Len(path) = 2
         THEN [rs EXCEPT ![path[1]].children[path[2]].prefix = prefix]
         ELSE [rs EXCEPT ![path[1]].children[path[2]].children[path[3]].prefix = prefix]

\* the tree-drawing prefix of the node a pointer names, a string of
\* characters: empty for a top-level row, else one blank per level above the
\* node's parent, then "!" for a last sibling and "|" for another one
PrefixOf(rs, path) ==
    IF Len(path) = 1 THEN <<>>
    ELSE LET parent == NodeAt(rs, SubSeq(path, 1, Len(path) - 1))
         IN  [i \in 1..(Len(path) - 2) |-> " "]
             \o <<IF path[Len(path)] = Len(parent.children) THEN "!" ELSE "|">>

RECURSIVE SetPrefixes(_, _)
SetPrefixes(rs, paths) ==
    IF paths = <<>> THEN rs
    ELSE SetPrefixes(SetPrefix(rs, Head(paths), PrefixOf(rs, Head(paths))),
                     Tail(paths))

\* utils.DepthFirstTraversalPrefixing(&s.rows[i]): the prefixes of the nodes
\* of tree i that are reached through traversable ancestors
DepthFirstTraversalPrefixing(rs, i) ==
    SetPrefixes(rs, DepthFirstTraversal(rs, <<i>>, FALSE))

\* an index that counts the positions from 1
RECURSIVE IndexRowsFromOne(_, _, _, _)
IndexRowsFromOne(rs, tmpRows, trav, idx) ==
    IF tmpRows = <<>> THEN [dfsTraversal |-> trav, dfsIndex |-> idx]
    ELSE LET k == NodeAt(rs, Head(tmpRows)).key
         IN  IndexRowsFromOne(rs, Tail(tmpRows), Append(trav, Head(tmpRows)),
                              [x \in DOMAIN idx \cup {k} |->
                                  IF x = k THEN Len(trav) + 1 ELSE idx[x]])

\* for j := range tmpRows { s.dfsTraversal = append(...); s.dfsIndex[key] = len - 1 }
RECURSIVE IndexRows(_, _, _, _)
IndexRows(rs, tmpRows, trav, idx) ==
    IF tmpRows = <<>> THEN [dfsTraversal |-> trav, dfsIndex |-> idx]
    ELSE LET k == NodeAt(rs, Head(tmpRows)).key
         IN  IndexRows(rs, Tail(tmpRows), Append(trav, Head(tmpRows)),
                       [x \in DOMAIN idx \cup {k} |->
                           IF x = k THEN Len(trav) ELSE idx[x]])

\* prefixAndIndex, from tree i on
RECURSIVE PrefixAndIndexFrom(_, _, _, _)
PrefixAndIndexFrom(rs, i, trav, idx) ==
    IF i > Len(rs) THEN [rows |-> rs, dfsTraversal |-> trav, dfsIndex |-> idx]
    ELSE LET rs1 == DepthFirstTraversalPrefixing(rs, i)
             r == IndexRows(rs1, DepthFirstTraversal(rs1, <<i>>, FALSE), trav, idx)
         IN  PrefixAndIndexFrom(rs1, i + 1, r.dfsTraversal, r.dfsIndex)

prefixAndIndex(s) ==
    LET r == PrefixAndIndexFrom(s.rows, 1, <<>>, <<>>)
    IN  [s EXCEPT !.rows = r.rows, !.dfsTraversal = r.dfsTraversal,
                  !.dfsIndex = r.dfsIndex, !.dfsUpToDate = TRUE,
                  !.dfsRows = [shared |-> TRUE, rows |-> <<>>]]

\* if !s.dfsUpToDate { s.prefixAndIndex() }
Refreshed(s) == IF s.dfsUpToDate THEN s ELSE prefixAndIndex(s)

\* the row that the pointer at position i (from 0) of dfsTraversal names
Pointed(s, i) ==
    NodeAt(IF s.dfsRows.shared THEN s.rows ELSE s.dfsRows.rows, s.dfsTraversal[i + 1])

\* errors of the queries; Panic is a run-time panic of the Go program
ErrCast == "casting key to buildRowKey failed"
ErrKeyNotFound == "key not found"
ErrNoMatchFound == "no match found"
Panic == "panic"

\* what a query returns: the struct, the rows, the index and the error
Returns(s, selectedRows, index, e) ==
    [s |-> s, rows |-> selectedRows, index |-> index, err |-> e]

\* a window that is cut at the end of the view and not shifted back
WindowShrinking(s, keyIndex, nbrBefore, nbrAfter) ==
    LET n == Len(s.dfsTraversal)
        lower == Bounded(keyIndex - nbrBefore, 0, n)
        upper == Bounded(lower + nbrBefore + nbrAfter + 1, 0, n)
    IN  Returns(s,
                [i \in 1..(upper - lower) |-> NodeAt(s.rows, s.dfsTraversal[lower + i])],
                keyIndex - lower, NoErr)

\* Select, from lower := utils.Bounded(...) on: the window around keyIndex
Window(s, keyIndex, nbrBefore, nbrAfter) ==
    LET n == Len(s.dfsTraversal)
        lower0 == Bounded(keyIndex - nbrBefore, 0, n)
        upper == Bounded(lower0 + nbrBefore + nbrAfter + 1, 0, n)
        lower == Bounded(upper - (nbrBefore + nbrAfter + 1), 0, n)
        same == {i \in 0..(upper - lower - 1) :
                    s.dfsTraversal[lower + i + 1] = s.dfsTraversal[keyIndex + 1]}
    IN  IF upper < lower
        THEN Returns(s, <<>>, 0, Panic)
        ELSE Returns(s,
                     [i \in 1..(upper - lower) |-> Pointed(s, lower + i - 1)],
                     IF same = {} THEN 0
                     ELSE CHOOSE i \in same : \A j \in same : j <= i,
                     NoErr)

\* a Select that looks for the key only
CandidatesKeyOnly(key) == <<key, key, key>>

\* the keys Select looks for: the key, its stage, its build
Candidates(key) ==
    <<key, [key EXCEPT !.jobID = 0], [key EXCEPT !.stageID = 0, !.jobID = 0]>>

Select(s, key, nbrBefore, nbrAfter) ==
    IF key \notin RowKeys THEN Returns(s, <<>>, 0, ErrCast)
    ELSE LET s1 == Refreshed(s)
             keys == Candidates(key)
             found == {i \in 1..3 : keys[i] \in DOMAIN s1.dfsIndex}
         IN  IF Len(s1.dfsTraversal) = 0 THEN Returns(s1, <<>>, 0, NoErr)
             ELSE IF found = {} THEN Returns(s1, <<>>, 0, ErrKeyNotFound)
             ELSE Window(s1,
                         s1.dfsIndex[keys[CHOOSE i \in found : \A j \in found : i <= j]],
                         nbrBefore, nbrAfter)

\* a SelectFirst that returns the first row alone
SelectFirstAlone(s, limit) ==
    LET s1 == Refreshed(s)
    IN  IF Len(s1.dfsTraversal) = 0 THEN Returns(s1, <<>>, 0, NoErr)
        ELSE Select(s1, Pointed(s1, 0).key, 0, 0)

SelectFirst(s, limit) ==
    LET s1 == Refreshed(s)
    IN  IF Len(s1.dfsTraversal) = 0 THEN Returns(s1, <<>>, 0, NoErr)
        ELSE Select(s1, Pointed(s1, 0).key, 0, limit - 1)

SelectLast(s, limit) ==
    LET s1 == Refreshed(s)
    IN  IF Len(s1.dfsTraversal) = 0 THEN Returns(s1, <<>>, 0, NoErr)
        ELSE Select(s1, Pointed(s1, Len(s1.dfsTraversal) - 1).key, limit - 1, 0)

\* strings are sequences of characters.  The text of an account or build
\* identifier, of a number, and of the time elapsed since a valid time.
Text(id) ==
    IF id = "a1" THEN <<"a", "1">>
    ELSE IF id = "a2" THEN <<"a", "2">>
    ELSE IF id = "b1" THEN <<"b", "1">>
    ELSE <<"?">>
Itoa(n) == <<ToString(n)>>
ElapsedSince(t) == <<ToString(t), "h">>
nullTimeToString(t) == IF t.Valid THEN ElapsedSince(t.Time) ELSE <<"-">>

\* buildRow.Tabular(): the displayed value of each column.  The state, name,
\* id, start and finish time of a row are not part of the rows here and
\* read as the zero value.
Tabular(row) ==
    ("ACCOUNT" :> Text(row.key.accountID))
    @@ ("STATE" :> <<>>)
    @@ (" NAME" :> row.prefix)
    @@ ("BUILD" :> Text(row.key.buildID))
    @@ ("STAGE" :> Itoa(row.key.stageID))
    @@ ("JOB" :> Itoa(row.key.jobID))
    @@ ("TYPE" :> <<row.type_>>)
    @@ ("ID" :> <<>>)
    @@ ("STARTED" :> nullTimeToString(NoTime))
    @@ ("FINISHED" :> nullTimeToString(NoTime))
    @@ ("UPDATED" :> nullTimeToString(row.updatedAt))

\* strings.Contains
Contains(value, search) ==
    \E k \in 0..(Len(value) - Len(search)) :
        SubSeq(value, k + 1, k + Len(search)) = search

\* for _, value := range row.Tabular() { if strings.Contains(value, search) ...
Matches(row, search) ==
    \E column \in DOMAIN Tabular(row) : Contains(Tabular(row)[column], search)

Modulo(a, b) == a % b
MaxInt(a, b) == IF a < b THEN b ELSE a
MinInt(a, b) == IF a < b THEN a ELSE b

\* s.dfsIndex[key], the zero value when the key is absent
IndexOrZero(s, key) == IF key \in DOMAIN s.dfsIndex THEN s.dfsIndex[key] ELSE 0

\* a scan that goes on past a matching row
RECURSIVE ScanLastMatch(_, _, _, _, _)
ScanLastMatch(s, i, stop, step, search) ==
    IF i = stop THEN -1
    ELSE LET further == ScanLastMatch(s, Modulo(i + step, Len(s.dfsTraversal)),
                                      stop, step, search)
         IN  IF further # -1 THEN further
             ELSE IF Matches(Pointed(s, i), search) THEN i ELSE -1

\* for i := start; i != s.dfsIndex[activeKey]; i = next(i): the position of
\* the first matching row, -1 when the loop ends without one
RECURSIVE Scan(_, _, _, _, _)
Scan(s, i, stop, step, search) ==
    IF i = stop THEN -1
    ELSE IF Matches(Pointed(s, i), search) THEN i
    ELSE Scan(s, Modulo(i + step, Len(s.dfsTraversal)), stop, step, search)

\* a search that always puts the matching row at the top of the window
NextMatchOnTop(s, top, bottom, active, search, ascending) ==
    IF {top, bottom, active} \ RowKeys # {} THEN Returns(s, <<>>, 0, ErrCast)
    ELSE IF Len(s.dfsTraversal) = 0 THEN Returns(s, <<>>, 0, Panic)
    ELSE LET stop == IndexOrZero(s, active)
             step == IF ascending THEN 1 ELSE -1
             i == Scan(s, Modulo(stop + step, Len(s.dfsTraversal)), stop, step, search)
         IN  IF i = -1 THEN Returns(s, <<>>, 0, ErrNoMatchFound)
             ELSE Select(s, Pointed(s, i).key, 0,
                         IndexOrZero(s, bottom) - IndexOrZero(s, top))

\* dividing by an empty view's length panics
NextMatch(s, top, bottom, active, search, ascending) ==
    IF {top, bottom, active} \ RowKeys # {} THEN Returns(s, <<>>, 0, ErrCast)
    ELSE IF Len(s.dfsTraversal) = 0 THEN Returns(s, <<>>, 0, Panic)
    ELSE LET step == IF ascending THEN 1 ELSE -1
             stop == IndexOrZero(s, active)
             start == Modulo(stop + step, Len(s.dfsTraversal))
             i == Scan(s, start, stop, step, search)
             nbrRows == IndexOrZero(s, bottom) - IndexOrZero(s, top) + 1
             maxBelow == MaxInt(IndexOrZero(s, bottom), i)
             minBelow == MaxInt(IndexOrZero(s, top), maxBelow - nbrRows + 1)
             minAbove == MinInt(IndexOrZero(s, top), i)
             maxAbove == MinInt(IndexOrZero(s, bottom), minAbove + nbrRows - 1)
             minIndex == IF i > stop THEN minBelow ELSE minAbove
             maxIndex == IF i > stop THEN maxBelow ELSE maxAbove
         IN  IF i = -1 THEN Returns(s, <<>>, 0, ErrNoMatchFound)
             ELSE Select(s, Pointed(s, i).key, i - minIndex, maxIndex - i)

\* a query was called with args and returned r
Queried(op, args, r) ==
    /\ nops < MaxQueries
    /\ nops' = nops + 1
    /\ rows' = r.s.rows
    /\ treeIndex' = r.s.treeIndex
    /\ dfsUpToDate' = r.s.dfsUpToDate
    /\ dfsTraversal' = r.s.dfsTraversal
    /\ dfsIndex' = r.s.dfsIndex
    /\ dfsRows' = r.s.dfsRows
    /\ last' = Called(op, r.err, FALSE,
                      [args |-> args, rows |-> r.rows, index |-> r.index])
    /\ UNCHANGED <<lockVars, frame, cacheVars, snap, snapTaken, snapAt, ufpVars>>

CallSelect(key, nbrBefore, nbrAfter) ==
    Queried("Select", <<key, nbrBefore, nbrAfter>>,
            Select(Self, key, nbrBefore, nbrAfter))

CallSelectFirst(limit) == Queried("SelectFirst", <<limit>>, SelectFirst(Self, limit))

CallSelectLast(limit) == Queried("SelectLast", <<limit>>, SelectLast(Self, limit))

\* the call is made on a view that has rows; whether the view was up to date
\* at the time of the call is kept with the arguments
CallNextMatch(top, bottom, active, search, ascending) ==
    /\ dfsTraversal # <<>>
    /\ Queried("NextMatch",
               [top |-> top, bottom |-> bottom, active |-> active,
                search |-> search, ascending |-> ascending,
                upToDate |-> dfsUpToDate],
               NextMatch(Self, top, bottom, active, search, ascending))

\* the builds in the cache when the queries are made: none, or one of account
\* "a1" with a job and a stage holding a job, and an older one of account
\* "a2" with a job
RECURSIVE SaveAll(_, _, _)
SaveAll(bs, h, ts) ==
    IF ts = <<>> THEN [builds |-> bs, heap |-> h]
    ELSE LET a == AllocBuild(h, Head(ts))
             r == Save(bs, a.h, a.b)
         IN  SaveAll(r.builds, r.heap, Tail(ts))

ViewBuilds ==
    {<<>>, <<RowBuild("a1", 2, StageWithJob, JobOnly), RowBuild("a2", 1, NilMap, JobOnly)>>}

\* the keys of the rows that have children
ParentKeys ==
    {buildRowKey("a1", "b1", 0, 0), buildRowKey("a1", "b1", 1, 0),
     buildRowKey("a2", "b1", 0, 0)}

InitView ==
    /\ \E ts \in ViewBuilds :
          /\ builds = SaveAll(<<>>, <<>>, ts).builds
          /\ heap = SaveAll(<<>>, <<>>, ts).heap
    /\ providers = {"a1"}
    /\ snap = {}
    /\ snapTaken = FALSE
    /\ snapAt = {}
    /\ last = Called("NewRepositoryBuilds", NoErr, FALSE, <<>>)
    /\ nops = 0
    /\ NoGoroutine
    /\ UFPIdle
    /\ NewRepositoryBuilds

NextView ==
    \/ FetchRows
    \/ \E key \in ParentKeys, traversable \in BOOLEAN :
          SetTraversable(key, traversable, FALSE)
    \/ \E key \in RowKeys \cup {NotAKey}, nbrBefore, nbrAfter \in 0..MaxAround :
          CallSelect(key, nbrBefore, nbrAfter)
    \/ \E limit \in 1..(MaxAround + 1) : CallSelectFirst(limit)
    \/ \E limit \in 1..(MaxAround + 1) : CallSelectLast(limit)

SpecView == InitView /\ [][NextView]_vars

\* the keys of the rows of the largest forest, in depth-first order, and the
\* texts searched for: the type of the stage rows, the type of the job rows,
\* the account of the second build
ForestKeys ==
    <<buildRowKey("a1", "b1", 0, 0), buildRowKey("a1", "b1", 0, 1),
      buildRowKey("a1", "b1", 1, 0), buildRowKey("a1", "b1", 1, 1),
      buildRowKey("a2", "b1", 0, 0), buildRowKey("a2", "b1", 0, 1)>>
Searches == {<<"S">>, <<"J">>, <<"a", "2">>}

\* a RepositoryBuilds that has fetched its rows from the cache once
InitSearch ==
    /\ \E ts \in ViewBuilds :
          /\ builds = SaveAll(<<>>, <<>>, ts).builds
          /\ heap = SaveAll(<<>>, <<>>, ts).heap
    /\ providers = {"a1"}
    /\ snap = {}
    /\ snapTaken = FALSE
    /\ snapAt = {}
    /\ last = Called("FetchRows", NoErr, FALSE, <<>>)
    /\ nops = 0
    /\ NoGoroutine
    /\ UFPIdle
    /\ \E sorted \in SortSlice({buildRowFromBuild(heap, b) : b \in Builds(builds)}) :
          LET r == Restore(sorted, <<>>, TraverseRows(sorted, 1), {})
          IN  /\ rows = r.rows
              /\ treeIndex = r.treeIndex
    /\ dfsUpToDate = FALSE
    /\ dfsTraversal = <<>>
    /\ dfsIndex = <<>>
    /\ dfsRows = [shared |-> FALSE, rows |-> <<>>]

\* searches, after a first query has built the view; top, active and bottom
\* are keys of rows that follow each other in that order when displayed
NextSearch ==
    \/ \E key \in ParentKeys, traversable \in BOOLEAN :
          SetTraversable(key, traversable, FALSE)
    \/ CallSelectFirst(1)
    \/ \E t, a, b \in DOMAIN ForestKeys, search \in Searches, ascending \in BOOLEAN :
          /\ t <= a
          /\ a <= b
          /\ CallNextMatch(ForestKeys[t], ForestKeys[b], ForestKeys[a], search,
                           ascending)

SpecSearch == InitSearch /\ [][NextSearch]_vars

\* rows expanded and collapsed, one by one or with their descendants, between
\* queries that rebuild the view
NextFlags ==
    \/ \E key \in RowKeys \cup {NotAKey}, traversable \in BOOLEAN, recursive \in BOOLEAN :
          SetTraversable(key, traversable, recursive)
    \/ CallSelectFirst(1)

SpecFlags == InitSearch /\ [][NextFlags]_vars

(***************************************************************************)
(* RepositoryBuilds.WriteToDirectory.  A file is named by the ID of its    *)
(* job and the rank of its creation in the call, which stands for the      *)
(* random part of the name ioutil.TempFile makes; the files the call wrote *)
(* are given with their content.                                           *)
(***************************************************************************)
ErrNoRow == "no row associated to key"
ErrTempFile == "ioutil.TempFile failed"

JobKey(row) ==
    [AccountID |-> row.key.accountID, BuildID |-> row.key.buildID,
     StageID |-> row.key.stageID, ID |-> row.key.jobID]

\* the job rows among the rows of the subtree that are reached through
\* traversable nodes only
VisibleJobKeys(rs, path) ==
    LET t == DepthFirstTraversal(rs, path, FALSE)
    IN  SelectSeq([i \in 1..Len(t) |-> JobKey(NodeAt(rs, t[i]))],
                  LAMBDA k : k.ID # 0)

\* for _, row := range utils.DepthFirstTraversal(build, true) {
\*     if row.type_ == "J" { jobKeys = append(jobKeys, ...) } }
JobKeysUnder(rs, path) ==
    LET t == DepthFirstTraversal(rs, path, TRUE)
        js == SelectSeq(t, LAMBDA q : NodeAt(rs, q).type_ = "J")
    IN  [i \in 1..Len(js) |-> JobKey(NodeAt(rs, js[i]))]

\* Cache.FetchJobs: the cached jobs of the keys, with their keys
FetchJobs(bs, h, jobKeys) ==
    LET found == SelectSeq(jobKeys,
                     LAMBDA k : fetchJob(bs, h, k.AccountID, k.BuildID, k.StageID,
                                         k.ID).exists)
    IN  [i \in 1..Len(found) |->
            [Key |-> found[i],
             job |-> fetchJob(bs, h, found[i].AccountID, found[i].BuildID,
                              found[i].StageID, found[i].ID).job]]

\* ioutil.TempFile(dir, "job_<ID>_*.log") for the i-th job
TempFile(jobs, i) == [job |-> jobs[i].job.ID, rank |-> i]

\* Cache.WriteLogs: the log of each finished job goes to its file through
\* the path of WriteLog; the first error ends the call.  files maps the
\* paths written so far to their content.
RECURSIVE WriteLogs(_, _, _, _, _, _, _)
WriteLogs(bs, h, provs, jobs, i, res, files) ==
    IF i > Len(jobs) THEN [err |-> NoErr, heap |-> h, files |-> files]
    ELSE IF IsActive(jobs[i].job.State)
    THEN WriteLogs(bs, h, provs, jobs, i + 1, res, files)
    ELSE LET k == jobs[i].Key
             r == WriteLog(bs, h, provs, k.AccountID, k.BuildID, k.StageID, k.ID,
                           res, FALSE)
         IN  IF r.err # NoErr THEN [err |-> r.err, heap |-> r.heap, files |-> files]
             ELSE WriteLogs(bs, r.heap, provs, jobs, i + 1, res,
                            files @@ (TempFile(jobs, i) :> r.out))

WriteToDirectoryFails(h, e) ==
    [err |-> e, heap |-> h, paths |-> <<>>, stream |-> FALSE, files |-> <<>>]

\* res is what provider.Log returns when it is called, tempFails whether
\* ioutil.TempFile fails; stream tells whether the Streamer returned is
\* not nil
WriteToDirectory(s, bs, h, provs, key, res, tempFails) ==
    IF key \notin RowKeys THEN WriteToDirectoryFails(h, ErrCast)
    ELSE IF key \notin DOMAIN s.treeIndex THEN WriteToDirectoryFails(h, ErrNoRow)
    ELSE LET jobs == FetchJobs(bs, h, JobKeysUnder(s.rows, s.treeIndex[key]))
             w == WriteLogs(bs, h, provs, jobs, 1, res, <<>>)
         IN  IF tempFails /\ Len(jobs) > 0 THEN WriteToDirectoryFails(h, ErrTempFile)
             ELSE IF w.err # NoErr THEN WriteToDirectoryFails(w.heap, w.err)
             ELSE [err |-> NoErr, heap |-> w.heap,
                   paths |-> [i \in 1..Len(jobs) |-> TempFile(jobs, i)],
                   stream |-> \E i \in 1..Len(jobs) : IsActive(jobs[i].job.State),
                   files |-> w.files]

CallWriteToDirectory(key, res, tempFails) ==
    /\ nops < MaxOps
    /\ nops' = nops + 1
    /\ LET r == WriteToDirectory(Self, builds, heap, providers, key, res, tempFails)
       IN  /\ heap' = r.heap
           /\ last' = Called("WriteToDirectory", r.err, FALSE,
                             [key |-> key, paths |-> r.paths, stream |-> r.stream,
                              files |-> r.files])
    /\ UNCHANGED <<lockVars, frame, builds, providers, snap, snapTaken, snapAt, ufpVars, rowVars>>

\* the build in the cache when logs are exported: a finished job and a stage
\* holding an active or a finished job, with and without cached logs
ExportStage(job) == MapOf(1 :> [ID |-> 1, Jobs |-> MapOf(1 :> job)])
ExportBuilds ==
    {[Repository |-> "a1", ID |-> "b1", State |-> Running, UpdatedAt |-> 1,
      Stages |-> ExportStage(j), Jobs |-> MapOf(1 :> Job(1, Passed, l))] :
        j \in {Job(1, Running, NoLog), Job(1, Failed, NoLog)},
        l \in {NoLog, NullString(LogA)}}

\* a RepositoryBuilds that has fetched its rows from a cache of one build
InitExport ==
    /\ \E t \in ExportBuilds :
          /\ builds = SaveAll(<<>>, <<>>, <<t>>).builds
          /\ heap = SaveAll(<<>>, <<>>, <<t>>).heap
    /\ providers = {"a1"}
    /\ snap = {}
    /\ snapTaken = FALSE
    /\ snapAt = {}
    /\ last = Called("FetchRows", NoErr, FALSE, <<>>)
    /\ nops = 0
    /\ NoGoroutine
    /\ UFPIdle
    /\ \E sorted \in SortSlice({buildRowFromBuild(heap, b) : b \in Builds(builds)}) :
          LET r == Restore(sorted, <<>>, TraverseRows(sorted, 1), {})
          IN  /\ rows = r.rows
              /\ treeIndex = r.treeIndex
    /\ dfsUpToDate = FALSE
    /\ dfsTraversal = <<>>
    /\ dfsIndex = <<>>
    /\ dfsRows = [shared |-> FALSE, rows |-> <<>>]

\* the jobs change state in the cache and the rows are expanded and
\* collapsed between the exports
NextExport ==
    \/ \E key \in ParentKeys, traversable \in BOOLEAN :
          SetTraversable(key, traversable, FALSE)
    \/ \E s \in StageIDs \cup {0}, j \in JobValues : CallSaveJob("a1", "b1", s, j)
    \/ \E i \in DOMAIN ForestKeys, res \in LogResults, tempFails \in BOOLEAN :
          CallWriteToDirectory(ForestKeys[i], res, tempFails)

SpecExport == InitExport /\ [][NextExport]_vars

(***************************************************************************)
(* Properties of the cache's methods, checked under Spec.                  *)
(***************************************************************************)
\* the Build value t as Save stores it: nil maps made empty
NormalJobs(jm) == IF jm.nil THEN MapOf(<<>>) ELSE jm
NormalBuild(t) ==
    [t EXCEPT !.Jobs = NormalJobs(@),
              !.Stages = IF @.nil THEN MapOf(<<>>)
                         ELSE MapOf([s \in DOMAIN @.m |->
                                       [@.m[s] EXCEPT !.Jobs = NormalJobs(@)]])]

\* the stages of the build cached under (accountID, buildID)
CachedStages(accountID, buildID) ==
    DOMAIN heap[builds[buildKey(accountID, buildID)].Stages].m

\* C6: the value Builds() returned is a point-in-time snapshot: a reader who
\* follows its builds' maps sees, whatever calls come afterwards, the stages,
\* jobs and job fields that were there when Builds() returned.
C6_SnapshotStaysAsReturned ==
    snapTaken => {DeepBuild(heap, b) : b \in snap} = snapAt

\* C7: WriteLog calls provider.Log only when the cached job has no log; after
\* a fetch that returned complete=false the cache is unchanged, the job still
\* has no log, the fetched content (newline-terminated) was written and the
\* result is the writer's; after a fetch that returned complete=true the
\* cached job's log is the fetched one; and a WriteLog on a job that has a
\* log does not call the provider.
C7_WriteLogCachesCompleteLogsOnly ==
    [][\A a \in Accounts, b \in BuildIDs, s \in StageIDs \cup {0}, j \in JobIDs,
          res \in LogResults, werr \in BOOLEAN :
          CallWriteLog(a, b, s, j, res, werr) =>
             LET before == fetchJob(builds, heap, a, b, s, j)
                 after == fetchJob(builds', heap', a, b, s, j)
             IN  /\ last'.called => (before.exists /\ ~before.job.Log.Valid)
                 /\ (before.exists /\ before.job.Log.Valid) =>
                       (~last'.called /\ heap' = heap)
                 /\ (last'.called /\ ~res.err /\ ~res.complete) =>
                       /\ heap' = heap
                       /\ after.exists /\ ~after.job.Log.Valid
                       /\ last'.err = (IF werr THEN ErrWriter ELSE NoErr)
                       /\ last'.out \in {res.log, Append(res.log, "\n")}
                       /\ HasNewlineSuffix(last'.out)
                 /\ (last'.called /\ ~res.err /\ res.complete) =>
                       /\ after.exists
                       /\ after.job = [before.job EXCEPT !.Log = NullString(res.log)]
      ]_vars

\* C7's case: a WriteLog that did not call the provider and wrote the log an
\* earlier WriteLog had fetched complete (only provider.Log yields LogA)
C7_Witness ==
    /\ last.op = "WriteLog" /\ ~last.called /\ last.err = NoErr
    /\ last.out = Append(LogA, "\n")

\* C8: Save of a build whose Repository is nil, SaveJob for a key that is not
\* cached and SaveJob with a non-zero stageID the cached build does not have
\* each return an error and leave the keys and every cached build, stage and
\* job as they were.
C8_RejectedCallsChangeNothing ==
    [][/\ \A t \in BuildValues :
             (CallSave(t) /\ t.Repository = NoRepo) =>
                /\ last'.err # NoErr
                /\ builds' = builds
                /\ DeepCache(builds', heap') = DeepCache(builds, heap)
       /\ \A a \in Accounts, b \in BuildIDs, s \in StageIDs \cup {0}, j \in JobValues :
             (/\ CallSaveJob(a, b, s, j)
              /\ \/ buildKey(a, b) \notin DOMAIN builds
                 \/ s # 0 /\ s \notin CachedStages(a, b)) =>
                /\ last'.err # NoErr
                /\ builds' = builds
                /\ DeepCache(builds', heap') = DeepCache(builds, heap)
      ]_vars

\* C8's case: SaveJob was refused for a stage the cached build does not have
C8_Witness ==
    /\ last.op = "SaveJob" /\ last.err = ErrNoStage
    /\ \E k \in DOMAIN builds : DeepBuild(heap, builds[k]).Jobs.m = <<>>

\* C9: a successful Save(t) leaves exactly the keys there were plus t's, the
\* build under t's key is t in its entirety (nothing of an earlier snapshot
\* of the key survives), and the builds under the other keys are unchanged.
C9_SaveReplacesTheWholeBuild ==
    [][\A t \in BuildValues :
          (CallSave(t) /\ last'.err = NoErr) =>
             LET k == buildKey(t.Repository, t.ID)
             IN  /\ DOMAIN builds' = DOMAIN builds \cup {k}
                 /\ DeepBuild(heap', builds'[k]) = NormalBuild(t)
                 /\ \A k2 \in DOMAIN builds \ {k} :
                       DeepBuild(heap', builds'[k2]) = DeepBuild(heap, builds[k2])
      ]_vars

\* C9's case: two successful Saves of one key, the first with a job and the
\* second without: the job map of the first is in the heap (objects 1 and 2
\* are the first Save's) and the cached build has no job
C9_Witness ==
    /\ nops = 2 /\ last.op = "Save" /\ last.err = NoErr
    /\ Len(heap) = 4
    /\ heap[1] = JobsObj(1 :> Job(1, Running, NoLog))
    /\ heap[2] = EmptyStages
    /\ Cardinality(DOMAIN builds) = 1
    /\ \A k \in DOMAIN builds : DeepBuild(heap, builds[k]).Jobs.m = <<>>

(***************************************************************************)
(* Properties of UpdateFromProviders, checked under SpecUFP and FairUFP.   *)
(***************************************************************************)
Returned == mainPC = "returned"

\* the key Save gives the Build value t
KeyOf(t) == buildKey(t.Repository, t.ID)

\* the build cached under k is one that a provider sent for k
CachedIsStreamed(k) ==
    \E p \in providers : \E i \in 1..Len(streamed[p]) :
       /\ KeyOf(streamed[p][i]) = k
       /\ DeepBuild(heap, builds[k]) = NormalBuild(streamed[p][i])

\* every build sent by a provider that returned nil is in the cache
StreamedArePresent ==
    \A p \in providers :
       perr[p] = NilE =>
          \A i \in 1..Len(streamed[p]) :
             /\ KeyOf(streamed[p][i]) \in DOMAIN builds
             /\ CachedIsStreamed(KeyOf(streamed[p][i]))

NoSaveFailed == \A p \in providers : cerr[p] = NoneE

\* subCtx is cancelled only by the caller, by an error other than nil and
\* ErrRepositoryNotFound, or by the deferred cancel() at the return
CancelledForCause ==
    ctxDone => (callerCancelled \/ firstOther # NoneE \/ Returned)

\* C1 as claimed: if at least one provider reports ErrRepositoryNotFound,
\* every other provider finishes with nil and every Save succeeds, then
\* UpdateFromProviders returns nil with every streamed build in the cache.
C1_AsClaimed ==
    (/\ Returned
     /\ NoSaveFailed
     /\ \E p \in providers : perr[p] = NotFoundE
     /\ \A p \in providers : perr[p] \in {NotFoundE, NilE})
    => (err = NilE /\ StreamedArePresent)

\* C1, amended: ErrRepositoryNotFound from a provider never cancels subCtx;
\* and if at least one provider reports ErrRepositoryNotFound, at least one
\* provider finishes with nil, every provider does one or the other and
\* every Save succeeds, then UpdateFromProviders returns nil and every build
\* streamed by the providers that finished with nil is in the cache.
C1_NotFoundAmongSuccesses ==
    /\ CancelledForCause
    /\ (/\ Returned
        /\ NoSaveFailed
        /\ \E p \in providers : perr[p] = NotFoundE
        /\ \E p \in providers : perr[p] = NilE
        /\ \A p \in providers : perr[p] \in {NotFoundE, NilE})
       => (err = NilE /\ StreamedArePresent)

\* C1's case: one provider reported ErrRepositoryNotFound, the other streamed
\* builds and returned nil, nobody cancelled
C1_Witness ==
    /\ Returned /\ ~callerCancelled
    /\ perr["a1"] = NotFoundE /\ perr["a2"] = NilE
    /\ Len(streamed["a2"]) > 0
    /\ NoSaveFailed

\* C2 as claimed: with no other error, the result is ErrRepositoryNotFound
\* if and only if every registered provider reported ErrRepositoryNotFound.
C2_AsClaimed ==
    (Returned /\ firstOther = NoneE) =>
       (err = NotFoundE <=> \A p \in providers : perr[p] = NotFoundE)

\* C2, amended: the same, for a cache that has at least one provider (with
\* no provider at all the result is nil).
C2_NotFoundIffAllProviders ==
    (Returned /\ firstOther = NoneE) =>
       /\ providers # {} =>
             (err = NotFoundE <=> \A p \in providers : perr[p] = NotFoundE)
       /\ providers = {} => err = NilE

\* C2's case: two providers, both reported ErrRepositoryNotFound
C2_Witness ==
    /\ Returned /\ providers = Accounts /\ firstOther = NoneE
    /\ \A p \in providers : perr[p] = NotFoundE
    /\ err = NotFoundE

\* C3: if an error other than nil and ErrRepositoryNotFound is received from
\* errc, subCtx is cancelled and the value returned is the first such error,
\* whatever was received before or after it.
C3_FirstOtherErrorIsReturned ==
    /\ firstOther # NoneE => ctxDone
    /\ (Returned /\ firstOther # NoneE) => err = firstOther

\* all the goroutines of the call have finished
AllFinished ==
    /\ Returned
    /\ errcClosed
    /\ wg = 0
    /\ pending = 0
    /\ \A p \in Accounts : consPC[p] \in {"idle", "done"} /\ prodPC[p] \in {"idle", "done"}

\* C4: UpdateFromProviders eventually returns and every goroutine it
\* started eventually ends, whether or not anybody receives from updates and
\* whether or not a Save fails, provided every p.Builds returns once it has
\* streamed its builds or subCtx is cancelled.
C4_EventuallyReturns == <>AllFinished

\* C4's case: the call has returned although nobody received the signal of
\* a provider's first build and the Save of its second build failed
C4_Witness ==
    /\ Returned /\ ~callerCancelled
    /\ pending > 0
    /\ \E p \in providers : cerr[p] # NoneE /\ Len(streamed[p]) > 1

\* C5: after a failed UpdateFromProviders every key cached before the call is
\* still cached, and its build is the one it was or a complete build that a
\* provider streamed for that key during the call.
C5_FailedRefreshKeepsBuilds ==
    (Returned /\ err # NilE) =>
       \A k \in DOMAIN cachedBefore :
          /\ k \in DOMAIN builds
          /\ \/ DeepBuild(heap, builds[k]) = cachedBefore[k]
             \/ CachedIsStreamed(k)

\* C5's case: a failed call during which the build cached before was replaced
C5_Witness ==
    /\ Returned /\ err # NilE
    /\ DOMAIN cachedBefore # {}
    /\ \E k \in DOMAIN cachedBefore : DeepBuild(heap, builds[k]) # cachedBefore[k]

(***************************************************************************)
(* Properties of RepositoryBuilds, checked under SpecRows.                 *)
(***************************************************************************)
\* the pointers to all the nodes of the forest rs
Pointers(rs) == LET t == TraverseRows(rs, 1) IN {t[i] : i \in 1..Len(t)}

\* C10: every node of the forest that FetchRows builds has the traversable
\* flag that the node of the same key had in the forest before the call, and
\* is not traversable if no node had its key; this at every FetchRows call,
\* whatever Save, SetTraversable and FetchRows calls came before.
C10_FetchRowsKeepsFlagsByKey ==
    [][(last'.op = "FetchRows" /\ FetchRows) =>
          \A p \in Pointers(rows') :
             LET new == NodeAt(rows', p)
                 old == {q \in Pointers(rows) : NodeAt(rows, q).key = new.key}
             IN  IF old = {}
                 THEN ~new.traversable
                 ELSE \A q \in old : new.traversable = NodeAt(rows, q).traversable]_vars

\* C10's case: FetchRows has just rebuilt a forest of two builds in which a
\* stage is still traversable, its build is not, and treeIndex names the stage
C10_Witness ==
    /\ last.op = "FetchRows"
    /\ Len(rows) = 2
    /\ \E p \in Pointers(rows) :
          /\ NodeAt(rows, p).type_ = "S"
          /\ NodeAt(rows, p).traversable
          /\ ~rows[p[1]].traversable
          /\ treeIndex[NodeAt(rows, p).key] = p

(***************************************************************************)
(* Properties of the queries, checked under SpecView.                      *)
(***************************************************************************)
Min(a, b) == IF a < b THEN a ELSE b
Max(a, b) == IF a < b THEN b ELSE a

\* the row at position i (from 0) of the flattened view
ViewRow(i) == NodeAt(rows, dfsTraversal[i + 1])

\* the rows returned by the last query are the rows lo .. lo + Len - 1 of
\* the flattened view
ReturnedFrom(lo) ==
    /\ lo >= 0
    /\ lo + Len(last.out.rows) <= Len(dfsTraversal)
    /\ \A i \in 1..Len(last.out.rows) : last.out.rows[i] = ViewRow(lo + i - 1)

\* the position in the flattened view of the row Select anchors on, when
\* one of the candidates of key is in the view
HasAnchor(key) == \E i \in 1..3 : Candidates(key)[i] \in DOMAIN dfsIndex
AnchorOf(key) ==
    LET keys == Candidates(key)
    IN  dfsIndex[keys[CHOOSE i \in 1..3 :
                         /\ keys[i] \in DOMAIN dfsIndex
                         /\ \A j \in 1..(i - 1) : keys[j] \notin DOMAIN dfsIndex]]

\* C11: a Select that finds its anchor at position idx of a view of n >= 1
\* rows returns min(nbrBefore+nbrAfter+1, n) consecutive rows of the view,
\* the anchor among them at the returned index; the rows are those of
\* idx-nbrBefore .. idx+nbrAfter when that range is inside the view, and
\* otherwise the window is shifted, not shortened.
C11_SelectWindow ==
    (/\ last.op = "Select"
     /\ Len(dfsTraversal) >= 1
     /\ last.out.args[1] \in RowKeys
     /\ HasAnchor(last.out.args[1]))
    => LET n == Len(dfsTraversal)
           idx == AnchorOf(last.out.args[1])
           nbrBefore == last.out.args[2]
           nbrAfter == last.out.args[3]
           lo == idx - last.out.index
       IN  /\ last.err = NoErr
           /\ Len(last.out.rows) = Min(nbrBefore + nbrAfter + 1, n)
           /\ ReturnedFrom(lo)
           /\ last.out.index \in 0..(Len(last.out.rows) - 1)
           /\ last.out.rows[last.out.index + 1] = ViewRow(idx)
           /\ (idx - nbrBefore >= 0 /\ idx + nbrAfter <= n - 1) => lo = idx - nbrBefore
           /\ idx - nbrBefore < 0 => lo = 0
           /\ idx + nbrAfter > n - 1 => lo + Len(last.out.rows) = n

\* C11's case: Select(key, 2, 2) on a view of 6 rows anchored at position 4
\* returned the 5 rows that end the view, the anchor at index 3
C11_Witness ==
    /\ last.op = "Select"
    /\ Len(dfsTraversal) = 6
    /\ last.out.args[2] = 2 /\ last.out.args[3] = 2
    /\ AnchorOf(last.out.args[1]) = 4
    /\ Len(last.out.rows) = 5
    /\ last.out.index = 3
    /\ ReturnedFrom(1)

\* the pointer to the nearest node, from the node of path p up to its
\* top-level row, all of whose ancestors are traversable
Visible(q) == \A k \in 1..(Len(q) - 1) : NodeAt(rows, SubSeq(q, 1, k)).traversable
NearestVisible(p) ==
    SubSeq(p, 1, CHOOSE k \in 1..Len(p) :
                    /\ Visible(SubSeq(p, 1, k))
                    /\ \A m \in (k + 1)..Len(p) : ~Visible(SubSeq(p, 1, m)))

\* the first of key, key with jobID zeroed, key with stageID and jobID
\* zeroed that is in the flattened view, and whether there is one
StageOf(key) == [key EXCEPT !.jobID = 0]
BuildOf(key) == [key EXCEPT !.stageID = 0, !.jobID = 0]
InView(key) == key \in DOMAIN dfsIndex
FirstInView(key) ==
    IF InView(key) THEN key ELSE IF InView(StageOf(key)) THEN StageOf(key) ELSE BuildOf(key)
SomeInView(key) == InView(key) \/ InView(StageOf(key)) \/ InView(BuildOf(key))

Aggregated == last.op = "AggregateStatuses"
Children == {last.out.ss[i] : i \in DOMAIN last.out.ss}
Positions(S) == {i \in DOMAIN last.out.ss : last.out.ss[i] \in S}
AllowedFailures == {Statuser(Canceled, TRUE), Statuser(Failed, TRUE)}
PassedChildren == {Statuser(Passed, TRUE), Statuser(Passed, FALSE)}

\* C16: for any ordering of a collection that holds one allowed-to-fail
\* Canceled or Failed child and otherwise only Passed children, the
\* aggregate is Passed.
C16_AllowedFailureIsIgnored ==
    (/\ Aggregated
     /\ Cardinality(Positions(AllowedFailures)) = 1
     /\ Positions(PassedChildren) # {}
     /\ Children \subseteq AllowedFailures \cup PassedChildren)
        => last.out.state = Passed

\* C17: AggregateStatuses returns Unknown for an empty collection, and
\* Running for every non-empty collection, in any order, in which one child
\* is Running and every other child is Passed or an allowed-to-fail Failed
\* child.
C17_UnknownAndRunning ==
    Aggregated =>
        /\ last.out.ss = <<>> => last.out.state = Unknown
        /\ (/\ Cardinality(Positions({Statuser(Running, TRUE), Statuser(Running, FALSE)})) = 1
            /\ Children \subseteq {Statuser(Running, TRUE), Statuser(Running, FALSE),
                                    Statuser(Failed, TRUE)} \cup PassedChildren)
               => last.out.state = Running

\* an allowed-to-fail Failed child first, then the Running child, then a
\* Passed one
C17_Witness ==
    /\ Aggregated
    /\ last.out.ss = <<Statuser(Failed, TRUE), Statuser(Running, FALSE),
                       Statuser(Passed, FALSE)>>
    /\ last.out.state = Running

\* C15: for a view of n rows and limit >= 1, SelectFirst(limit) returns the
\* rows 0 .. min(limit, n) - 1 of the view and SelectLast(limit) the rows
\* n - min(limit, n) .. n - 1, in order; on an empty view both return no row
\* and no error.
C15_SelectFirstAndLast ==
    LET n == Len(dfsTraversal)
    IN  /\ last.op = "SelectFirst" =>
              /\ last.err = NoErr
              /\ Len(last.out.rows) = Min(last.out.args[1], n)
              /\ ReturnedFrom(0)
        /\ last.op = "SelectLast" =>
              /\ last.err = NoErr
              /\ Len(last.out.rows) = Min(last.out.args[1], n)
              /\ ReturnedFrom(n - Min(last.out.args[1], n))

\* SelectFirst(2) returned the first two of more than two rows
C15_Witness ==
    /\ last.op = "SelectFirst"
    /\ last.out.args[1] = 2
    /\ Len(dfsTraversal) > 2
    /\ last.out.rows = <<ViewRow(0), ViewRow(1)>>

(***************************************************************************)
(* Properties of NextMatch, checked under SpecSearch.  A call made on an   *)
(* up-to-date view leaves the view as it was, so the view of the state     *)
(* after the call is the view the call scanned.                            *)
(***************************************************************************)
Searched == last.op = "NextMatch" /\ last.out.args.upToDate
SearchedFrom == Searched /\ InView(last.out.args.active)

\* the position visited at step k of a scan from the active row
Visit(k) ==
    LET ia == dfsIndex[last.out.args.active]
    IN  IF last.out.args.ascending THEN (ia + k) % Len(dfsTraversal)
        ELSE (ia - k) % Len(dfsTraversal)

\* the steps at which the scan visits a row showing the searched text
MatchingSteps ==
    {k \in 1..(Len(dfsTraversal) - 1) : Matches(ViewRow(Visit(k)), last.out.args.search)}
FirstMatch == Visit(CHOOSE k \in MatchingSteps : \A j \in MatchingSteps : k <= j)

\* top, active and bottom are rows of the view, in that order
WindowAroundActive ==
    /\ SearchedFrom
    /\ InView(last.out.args.top)
    /\ InView(last.out.args.bottom)
    /\ dfsIndex[last.out.args.top] <= dfsIndex[last.out.args.active]
    /\ dfsIndex[last.out.args.active] <= dfsIndex[last.out.args.bottom]

\* the returned index names the row at position i of the view
ReturnsRowAt(i) ==
    /\ last.err = NoErr
    /\ last.out.index + 1 \in DOMAIN last.out.rows
    /\ last.out.rows[last.out.index + 1] = ViewRow(i)

OldTop == dfsIndex[last.out.args.top]
OldBottom == dfsIndex[last.out.args.bottom]
NewTop ==
    IF FirstMatch > OldBottom THEN FirstMatch - (OldBottom - OldTop)
    ELSE IF FirstMatch < OldTop THEN FirstMatch
    ELSE OldTop

\* C14: when NextMatch finds a match at position i and top, active and bottom
\* are rows of the view in that order, the returned window has
\* index(bottom) - index(top) + 1 rows and holds the matching row at the
\* returned index; it is the previous window when the match lies inside it,
\* the window of that size ending at i when the match is below it, and the
\* window of that size starting at i when the match is above it.
C14_NextMatchWindow ==
    (WindowAroundActive /\ MatchingSteps # {}) =>
        /\ last.err = NoErr
        /\ Len(last.out.rows) = OldBottom - OldTop + 1
        /\ ReturnedFrom(NewTop)
        /\ last.out.index = FirstMatch - NewTop

\* a match below a window of two rows or more that does not start the view
C14_Witness ==
    /\ WindowAroundActive
    /\ MatchingSteps # {}
    /\ OldTop > 0
    /\ OldBottom > OldTop
    /\ FirstMatch > OldBottom
    /\ last.err = NoErr
    /\ ReturnedFrom(FirstMatch - (OldBottom - OldTop))
    /\ last.out.index = OldBottom - OldTop

(***************************************************************************)
(* Properties of WriteToDirectory, checked under SpecExport                *)
(***************************************************************************)
Exported == last.op = "WriteToDirectory" /\ last.err = NoErr

\* the leaf job rows of the subtree of the row of key, and their cached jobs
LeafJobsUnder(key) ==
    {q \in Pointers(rows) :
        /\ Len(q) >= Len(treeIndex[key])
        /\ SubSeq(q, 1, Len(treeIndex[key])) = treeIndex[key]
        /\ NodeAt(rows, q).type_ = "J"
        /\ NodeAt(rows, q).children = <<>>}
CachedJob(q) ==
    LET k == NodeAt(rows, q).key
    IN  fetchJob(builds, heap, k.accountID, k.buildID, k.stageID, k.jobID).job

\* C18: WriteToDirectory on a key of treeIndex returns one file path per leaf
\* job of the subtree of that row, whatever the traversable flags are, and a
\* streaming action if and only if one of those jobs is Pending or Running
\* in the cache; the logs of the other jobs are in their files when it
\* returns.
C18_WriteToDirectory ==
    Exported =>
        LET jobs == LeafJobsUnder(last.out.key)
            paths == last.out.paths
        IN  /\ last.out.stream <=> \E q \in jobs : IsActive(CachedJob(q).State)
            /\ \E f \in [jobs -> DOMAIN paths] :
                  /\ \A i \in DOMAIN paths : \E q \in jobs : f[q] = i
                  /\ \A q, r \in jobs : f[q] = f[r] => q = r
                  /\ \A q \in jobs :
                        /\ paths[f[q]].job = CachedJob(q).ID
                        /\ \A r \in jobs : paths[f[q]] = paths[f[r]] => q = r
                        /\ IF IsActive(CachedJob(q).State)
                           THEN paths[f[q]] \notin DOMAIN last.out.files
                           ELSE /\ paths[f[q]] \in DOMAIN last.out.files
                                /\ last.out.files[paths[f[q]]] # <<>>
                                /\ CachedJob(q).Log.Valid =>
                                      last.out.files[paths[f[q]]]
                                          = LogToWrite(CachedJob(q).Log.String)

\* the logs of a collapsed build with a finished job that had no cached log
\* and a running job in a collapsed stage
C18_Witness ==
    /\ Exported
    /\ last.out.key = buildRowKey("a1", "b1", 0, 0)
    /\ ~NodeAt(rows, treeIndex[last.out.key]).traversable
    /\ Len(last.out.paths) = 2
    /\ last.out.stream
    /\ last.out.files = (last.out.paths[1] :> LogB)
    /\ CachedJob(<<1, 1>>).Log = NullString(LogB)

(***************************************************************************)
(* Properties of the mutex, checked under FairLock                         *)
(***************************************************************************)
\* a goroutine is in provider.Log, or the goroutine calling p.Builds for it
\* is in p.Builds
InProviderLog(g) == gor[g].fn = "Log"
InProviderBuilds(g) == prod[g] = "Builds"

\* the goroutine that holds the mutex is between Lock and Unlock and in no
\* provider call, and a goroutine that is about to read or write c.builds
\* holds the mutex
MutexDiscipline ==
    \A g \in Goroutines :
        /\ mutex = g => gor[g].pos \in {"map", "unlock"} /\ ~InProviderLog(g)
        /\ gor[g].pos = "map" => mutex = g

\* C19: no goroutine is inside a provider call while it holds the mutex,
\* every read or write of the build map is made with the mutex held, and a
\* goroutine that called Save, SaveJob or Builds completes the call whether
\* the provider calls in progress return or not.
C19_MutexNeverHeldAcrossProviderCall ==
    /\ []MutexDiscipline
    /\ \A g \in Goroutines :
          (gor[g].op \in {"Save", "SaveJob", "Builds"}) ~> (gor[g].pos = "done")

\* Save has completed while provider.Log and p.Builds are in progress in
\* other goroutines
C19_Witness ==
    \E g, h, k \in Goroutines :
        /\ gor[g] = At("Save", "Save", "done", 0)
        /\ InProviderLog(h)
        /\ InProviderBuilds(k)
        /\ gor[k].pos = "range"

(***************************************************************************)
(* The order of the calls of Save, checked under SpecUFP                   *)
(***************************************************************************)
IsPrefix(a, b) == Len(a) <= Len(b) /\ SubSeq(b, 1, Len(a)) = a

\* the last of the builds p's goroutine passed to Save under key k
LastSaved(p, k) ==
    LET at == {i \in DOMAIN saved[p] :
                 saved[p][i].Repository # NoRepo /\ KeyOf(saved[p][i]) = k}
    IN  saved[p][CHOOSE i \in at : \A j \in at : j <= i]

\* C20: the goroutine of a provider passes to Save the builds the provider
\* sent, in the order it sent them and each at most once, and when
\* UpdateFromProviders returns the build cached under a key that a provider
\* sent is the last one that provider sent and saved for that key.
C20_SavedInStreamOrder ==
    \A p \in Accounts :
        /\ IsPrefix(saved[p], streamed[p])
        /\ Returned =>
              \A i \in DOMAIN saved[p] :
                  saved[p][i].Repository # NoRepo =>
                      /\ KeyOf(saved[p][i]) \in DOMAIN builds
                      /\ DeepBuild(heap, builds[KeyOf(saved[p][i])])
                            = NormalBuild(LastSaved(p, KeyOf(saved[p][i])))

\* a provider sent a running build and then the same build passed, and the
\* passed one is cached at return
C20_Witness ==
    /\ Returned
    /\ Len(saved["a1"]) = 2
    /\ saved["a1"][1].State = Running
    /\ saved["a1"][2].State = Passed
    /\ KeyOf(saved["a1"][1]) = KeyOf(saved["a1"][2])
    /\ DeepBuild(heap, builds[KeyOf(saved["a1"][2])]).State = Passed

(***************************************************************************)
(* The view the queries work on, checked under SpecSearch                  *)
(***************************************************************************)
\* the RepositoryBuilds value with its flattened view rebuilt from the
\* current tree and flags
Rebuilt == prefixAndIndex(Self)

\* what the last query returns when it is made on the rebuilt view
OnRebuiltView ==
    IF last.op = "NextMatch"
    THEN NextMatch(Rebuilt, last.out.args.top, last.out.args.bottom,
                   last.out.args.active, last.out.args.search,
                   last.out.args.ascending)
    ELSE SelectFirst(Rebuilt, last.out.args[1])

\* C21: every query works on a flattened view that is up to date: after a
\* FetchRows or an effective SetTraversable the query rebuilds dfsTraversal
\* and dfsIndex before it reads a position from them, so what it returns is
\* what it returns on the view of the current tree and flags.
C21_QueriesUseTheCurrentView ==
    last.op \in {"NextMatch", "SelectFirst"} =>
        /\ last.err = OnRebuiltView.err
        /\ last.out.rows = OnRebuiltView.rows
        /\ last.out.index = OnRebuiltView.index

(***************************************************************************)
(* The flattened view once rebuilt, checked under SpecView                 *)
(***************************************************************************)
\* pointer a comes before pointer b in the depth-first order of the forest:
\* a node before its descendants, a tree or child before the next one
RECURSIVE ComesBefore(_, _)
ComesBefore(a, b) ==
    IF a = <<>> THEN b # <<>>
    ELSE IF b = <<>> THEN FALSE
    ELSE IF Head(a) # Head(b) THEN Head(a) < Head(b)
    ELSE ComesBefore(Tail(a), Tail(b))

\* C22: once the flattened view is rebuilt, dfsTraversal holds exactly the
\* nodes of the forest all of whose ancestors are traversable, each once, in
\* depth-first order with the top-level rows in forest order, and dfsIndex
\* maps the key of the row at position i to i.
C22_ViewIsTheVisibleForest ==
    dfsUpToDate =>
        /\ {dfsTraversal[i] : i \in DOMAIN dfsTraversal}
              = {q \in Pointers(rows) : Visible(q)}
        /\ \A i, j \in DOMAIN dfsTraversal :
              i < j => ComesBefore(dfsTraversal[i], dfsTraversal[j])
        /\ DOMAIN dfsIndex = {ViewRow(i - 1).key : i \in DOMAIN dfsTraversal}
        /\ \A i \in DOMAIN dfsTraversal : dfsIndex[ViewRow(i - 1).key] = i - 1

\* a rebuilt view of an expanded build whose stage is collapsed, followed by
\* a collapsed build: four rows, the job of the stage left out
C22_Witness ==
    /\ dfsUpToDate
    /\ Len(rows) = 2
    /\ rows[1].traversable
    /\ ~rows[2].traversable
    /\ \E q \in Pointers(rows) : Len(q) = 3 /\ ~Visible(q)
    /\ Len(dfsTraversal) = 4

(***************************************************************************)
(* The effect of SetTraversable, checked under SpecFlags                   *)
(***************************************************************************)
\* pointer q names the node of pointer p or one of its descendants
IsUnder(q, p) == Len(q) >= Len(p) /\ SubSeq(q, 1, Len(p)) = p

\* a forest without its flags
RECURSIVE WithoutFlags(_)
WithoutFlags(rs) ==
    [i \in DOMAIN rs |->
        [rs[i] EXCEPT !.traversable = FALSE, !.children = WithoutFlags(@)]]

\* what the step does if it is SetTraversable(key, traversable, recursive)
SetTraversableEffect(key, traversable, recursive) ==
    IF key \notin DOMAIN treeIndex THEN UNCHANGED rowVars
    ELSE /\ UNCHANGED <<treeIndex, dfsTraversal, dfsIndex, dfsRows>>
         /\ WithoutFlags(rows') = WithoutFlags(rows)
         /\ \A q \in Pointers(rows) :
               NodeAt(rows', q).traversable =
                   IF q = treeIndex[key] \/ (recursive /\ IsUnder(q, treeIndex[key]))
                   THEN traversable
                   ELSE NodeAt(rows, q).traversable
         /\ ~dfsUpToDate'

\* C23: SetTraversable(key, value, recursive) changes only traversable
\* flags: nothing when the key is not in treeIndex; the flag of the keyed
\* node only when recursive is false; the flags of the keyed node and of all
\* its descendants, and of no ancestor, sibling or other tree, when
\* recursive is true; and when the node exists the view is marked stale.
C23_SetTraversableFrame ==
    [][\A key \in RowKeys \cup {NotAKey}, traversable \in BOOLEAN, recursive \in BOOLEAN :
          (last'.op = "SetTraversable" /\ SetTraversable(key, traversable, recursive))
              => /\ SetTraversableEffect(key, traversable, recursive)
                 /\ UNCHANGED <<cacheVars, ufpVars, lockVars, frame>>]_vars

\* a build with an expanded stage was collapsed with its descendants while
\* the view was up to date and the other build expanded
C23_Witness ==
    /\ last.op = "SetTraversable"
    /\ ~dfsUpToDate
    /\ dfsTraversal # <<>>
    /\ \A q \in Pointers(rows) : NodeAt(rows, q).traversable <=> q[1] = 2
    /\ Len(dfsTraversal) = 5

(***************************************************************************)
(* Cache.WriteLog, one statement at a time, while other goroutines call    *)
(* Save.  fetchBuild, fetchJob, SaveJob and Save hold c.mutex from their   *)
(* first statement to their last and are one step each; provider.Log is    *)
(* called with the mutex free, and returns in a step of its own.           *)
(***************************************************************************)
\* return of WriteLog with the result r
WriteLogReturns(r) ==
    /\ last' = Called("WriteLog", r.err, r.called, r.out)
    /\ frame' = [frame EXCEPT !.pc = "returned"]

\* build, exists := c.fetchBuild(accountID, buildID)
WriteLogBegins(accountID, buildID, stageID, jobID) ==
    /\ frame.pc \in {"idle", "returned"}
    /\ nops < MaxOps
    /\ nops' = nops + 1
    /\ IF ~fetchBuild(builds, accountID, buildID)
       THEN /\ last' = Called("WriteLog", ErrNoBuild, FALSE, <<>>)
            /\ frame' = [NoFrame EXCEPT !.pc = "returned"]
       ELSE /\ frame' = [NoFrame EXCEPT !.pc = "fetchJob", !.accountID = accountID,
                                        !.buildID = buildID, !.stageID = stageID,
                                        !.jobID = jobID]
            /\ UNCHANGED last
    /\ UNCHANGED <<cacheVars, snap, snapTaken, snapAt, ufpVars, rowVars, lockVars>>

\* job, exists := c.fetchJob(...); if !job.Log.Valid { provider, exists := ...
WriteLogFetchJob ==
    /\ frame.pc = "fetchJob"
    /\ LET got == fetchJob(builds, heap, frame.accountID, frame.buildID,
                           frame.stageID, frame.jobID)
       IN  IF ~got.exists THEN WriteLogReturns(WriteLogFail(heap, FALSE, ErrNoJob))
           ELSE IF got.job.Log.Valid
           THEN /\ frame' = [frame EXCEPT !.pc = "write", !.job = got.job]
                /\ UNCHANGED last
           ELSE IF frame.accountID \notin providers
           THEN WriteLogReturns(WriteLogFail(heap, FALSE, ErrNoProvider))
           ELSE /\ frame' = [frame EXCEPT !.pc = "Log", !.job = got.job]
                /\ UNCHANGED last
    /\ UNCHANGED <<cacheVars, snap, snapTaken, snapAt, nops, ufpVars, rowVars, lockVars>>

\* log, complete, err := provider.Log(...) returns res;
\* job.Log = utils.NullString{String: log, Valid: true}
WriteLogProviderReturns(res) ==
    /\ frame.pc = "Log"
    /\ IF res.err THEN WriteLogReturns(WriteLogFail(heap, TRUE, ErrProviderLog))
       ELSE /\ frame' = [frame EXCEPT !.pc = IF res.complete THEN "SaveJob" ELSE "write",
                                      !.job.Log = NullString(res.log),
                                      !.called = TRUE, !.complete = res.complete]
            /\ UNCHANGED last
    /\ UNCHANGED <<cacheVars, snap, snapTaken, snapAt, nops, ufpVars, rowVars, lockVars>>

\* if complete { if err = c.SaveJob(accountID, buildID, stageID, job); err != nil {
WriteLogSaveJob ==
    /\ frame.pc = "SaveJob"
    /\ LET sj == WriteLogStore(builds, heap, frame.accountID, frame.buildID,
                               frame.stageID, frame.job, frame.complete)
       IN  /\ heap' = sj.heap
           /\ IF sj.err # NoErr THEN WriteLogReturns(WriteLogFail(sj.heap, TRUE, sj.err))
              ELSE /\ frame' = [frame EXCEPT !.pc = "write"]
                   /\ UNCHANGED last
    /\ UNCHANGED <<builds, providers, snap, snapTaken, snapAt, nops, ufpVars, rowVars,
                   lockVars>>

\* _, err := writer.Write([]byte(processedLog)); return err
WriteLogWrites(werr) ==
    /\ frame.pc = "write"
    /\ WriteLogReturns(WriteLogOut(heap, frame.called, frame.job.Log.String, werr))
    /\ UNCHANGED <<cacheVars, snap, snapTaken, snapAt, nops, ufpVars, rowVars, lockVars>>

\* the snapshots of build b1 that the goroutines calling Save have fetched
\* after the cached one: the build with its job and its stage holding a
\* job, all running or all passed, or the build without them
LogSnapshot(state, stages, jobs) ==
    [Repository |-> "a1", ID |-> "b1", State |-> state, UpdatedAt |-> 2,
     Stages |-> stages, Jobs |-> jobs]
LogSnapshots ==
    {LogSnapshot(st, MapOf(1 :> [ID |-> 1, Jobs |-> MapOf(1 :> Job(1, st, NoLog))]),
                 MapOf(1 :> Job(1, st, NoLog))) : st \in {Running, Passed}}
    \cup {LogSnapshot(st, NilMap, NilMap) : st \in {Running, Passed}}

\* the cache holds the snapshot of build b1 taken at time 1, with a running
\* job and a stage holding a running job, none with a log
InitLog ==
    /\ LET c == SaveAll(<<>>, <<>>, <<RowBuild("a1", 1, StageWithJob, JobOnly)>>)
       IN  /\ builds = c.builds
           /\ heap = c.heap
    /\ providers = {"a1"}
    /\ snap = {}
    /\ snapTaken = FALSE
    /\ snapAt = {}
    /\ last = Called("Save", NoErr, FALSE, <<>>)
    /\ nops = 0
    /\ NoGoroutine
    /\ UFPIdle
    /\ NewRepositoryBuilds

NextLog ==
    \/ \E t \in LogSnapshots : CallSave(t)
    \/ \E s \in StageIDs \cup {0}, j \in JobIDs : WriteLogBegins("a1", "b1", s, j)
    \/ WriteLogFetchJob
    \/ \E res \in LogResults : WriteLogProviderReturns(res)
    \/ WriteLogSaveJob
    \/ \E werr \in BOOLEAN : WriteLogWrites(werr)

SpecLog == InitLog /\ [][NextLog]_vars

(***************************************************************************)
(* WriteLog's write-back, checked under SpecLog                            *)
(***************************************************************************)
\* the cache c, seen by value, with the log of the job of the call f
\* replaced by the one the call holds, if the cache has this job
WithLog(c, f) ==
    LET key == buildKey(f.accountID, f.buildID)
    IN  IF key \notin DOMAIN c THEN c
        ELSE IF f.stageID = 0
        THEN IF f.jobID \in DOMAIN c[key].Jobs.m
             THEN [c EXCEPT ![key].Jobs.m[f.jobID].Log = f.job.Log]
             ELSE c
        ELSE IF /\ f.stageID \in DOMAIN c[key].Stages.m
                /\ f.jobID \in DOMAIN c[key].Stages.m[f.stageID].Jobs.m
             THEN [c EXCEPT ![key].Stages.m[f.stageID].Jobs.m[f.jobID].Log = f.job.Log]
             ELSE c

\* C24: the write-back of WriteLog (its call of SaveJob) changes nothing in
\* the cache except the log of the one job: when another goroutine has
\* saved a newer snapshot of the build between WriteLog's read of the job
\* and the write-back, the state of the cached job after the write-back is
\* the one of the newer snapshot, not the one WriteLog read.
C24_WriteBackChangesOnlyTheLog ==
    [][(frame.pc = "SaveJob" /\ frame'.pc # "SaveJob")
          => /\ builds' = builds
             /\ DeepCache(builds', heap') = WithLog(DeepCache(builds, heap), frame)]_vars
====
